---- MODULE Spec2Model ----
(***************************************************************************)
(* A model of the passthrough filesystem of src/main.rs: the Identity      *)
(* Table (inode_to_path, path_to_inode, next_inode), the Handle Table      *)
(* (open_files, next_fh), the three mutexes that guard them, and the       *)
(* mirrored source directory the handlers act on.                          *)
(*                                                                         *)
(* Every handler of `impl Filesystem for PassthroughFS` is a small         *)
(* program-counter machine, one micro-step per lock acquisition, host call *)
(* or reply.  Spec runs a handler to completion in one action (fuser calls *)
(* the handlers through `&mut self`, one request at a time); SpecConc      *)
(* interleaves the micro-steps of several worker threads, the scheduling   *)
(* model of the design document.                                           *)
(***************************************************************************)
EXTENDS Integers, Sequences, FiniteSets, TLC

VARIABLES
    inode_to_path,  \* Mutex<HashMap<u64, PathBuf>>: the map
    path_to_inode,  \* Mutex<HashMap<PathBuf, u64>>: the map
    next_inode,     \* AtomicU64
    open_files,     \* Mutex<HashMap<u64, File>>: the map
    next_fh,        \* AtomicU64
    mutex,          \* holder of each of the three mutexes (0: free)
    host,           \* the mirrored source directory on the host
    th,             \* per worker thread: the request it serves and its locals
    served,         \* requests dispatched so far
    proc,           \* main: its position, its locals and the fate of the process
    xlat            \* metadata_to_attr on its own: its arguments and its result

vars ==
    <<inode_to_path, path_to_inode, next_inode, open_files, next_fh, mutex, host, th, served,
      proc, xlat>>

----------------------------------------------------------------------------
(* Bounds *)

\* NodeIds the session may allocate are 2..MaxInode
MaxInode == 4
\* handles the session may allocate are 1..MaxFh
MaxFh == 1
\* the host refuses paths deeper than this (name too long)
MaxDepth == 2
\* worker threads of SpecConc
NThreads == 2
\* requests dispatched in one behaviour of Spec
MaxServed == 3
\* requests dispatched in one behaviour of SpecConc
MaxConcurrent == 2
\* interrupt signals delivered to the process in one behaviour of SpecMain
MaxSignals == 2

Names == {"a", "b"}
Threads == 1..NThreads
Paths == UNION {[1..d -> Names] : d \in 0..MaxDepth}

----------------------------------------------------------------------------
(* HashMap *)

Insert(m, k, v) == [x \in (DOMAIN m) \cup {k} |-> IF x = k THEN v ELSE m[x]]

Remove(m, k) == [x \in (DOMAIN m) \ {k} |-> m[x]]

Has(m, k) == k \in DOMAIN m

----------------------------------------------------------------------------
(* Path *)

\* Path::join of a relative path and a single name
join(p, n) == Append(p, n)

ParentOf(p) == SubSeq(p, 1, Len(p) - 1)

IsPrefix(p, q) == Len(p) <= Len(q) /\ SubSeq(q, 1, Len(p)) = p

\* File names of the host are byte strings; `a` stands for a name that is valid
\* UTF-8 and `b` for one that is not (the single byte 0xFF, say)
Utf8Names == {"a"}

\* OsStr::to_string_lossy: every byte sequence that is not UTF-8 is replaced by
\* U+FFFD
to_string_lossy(n) == IF n \in Utf8Names THEN n ELSE "U+FFFD"

\* Path::to_str: None unless the whole path is valid UTF-8 (`source` is)
to_str(p) == [some |-> \A k \in 1..Len(p) : p[k] \in Utf8Names, str |-> p]

\* q, a path at or below old, moved below new
Rebase(q, old, new) == new \o SubSeq(q, Len(old) + 1, Len(q))

----------------------------------------------------------------------------
(* The host file system below `source`: what std::fs does there.           *)
(* tree maps every relative path to its directory entry; files maps the    *)
(* host inode of every regular file to its content.                        *)

(* Every entry has the permission bits perm (st_mode & 0o7777), the owner   *)
(* uid and the group gid.  The process runs as user Euid, without           *)
(* privileges, and belongs to every group of the model.                     *)

Euid == 0

NoEntry == [kind |-> "none", hino |-> 0, target |-> "", perm |-> 0, uid |-> 0, gid |-> 0]

\* a directory as mkdir makes it: rwxr-xr-x, owned by the process
DirEntry == [kind |-> "dir", hino |-> 0, target |-> "", perm |-> 493, uid |-> Euid, gid |-> 0]

\* a regular file as create makes it: rw-r--r--, owned by the process
FileEntry(i) == [kind |-> "file", hino |-> i, target |-> "", perm |-> 420, uid |-> Euid, gid |-> 0]

\* a symbolic link to the name `target` of its own directory
LinkEntry(target) ==
    [kind |-> "symlink", hino |-> 0, target |-> target, perm |-> 511, uid |-> Euid, gid |-> 0]

\* the host lets the process write the regular file e: the owner's write bit
\* (0o200) for its own files, the group's (0o020) for the others
MayWrite(e) ==
    IF e.uid = Euid THEN (e.perm \div 128) % 2 = 1 ELSE (e.perm \div 16) % 2 = 1

EntryAt(h, p) == IF p \in DOMAIN h.tree THEN h.tree[p] ELSE NoEntry

Children(h, p) == {n \in Names : EntryAt(h, join(p, n)).kind # "none"}

Failed == [ok |-> FALSE, path |-> <<>>]

\* Path resolution of the host: the directory entry that `rest` names below the
\* directory `base`, every symbolic link on the way followed, the last one only
\* if `follow`.  ok with the path of a missing entry when only the last component
\* is missing.  fuel bounds the links followed (ELOOP).
RECURSIVE Canon(_, _, _, _, _)
Canon(h, base, rest, follow, fuel) ==
    IF rest = <<>> THEN [ok |-> TRUE, path |-> base]
    ELSE LET q == join(base, Head(rest))
             e == EntryAt(h, q)
             last == Len(rest) = 1
         IN  CASE e.kind = "dir" -> Canon(h, q, Tail(rest), follow, fuel)
               [] e.kind = "symlink" ->
                    IF last /\ ~follow THEN [ok |-> TRUE, path |-> q]
                    ELSE IF fuel = 0 THEN Failed
                    ELSE Canon(h, base, <<e.target>> \o Tail(rest), follow, fuel - 1)
               [] OTHER -> IF last THEN [ok |-> TRUE, path |-> q] ELSE Failed

\* source.join(relative), resolved
Real(h, p, follow) == Canon(h, <<>>, p, follow, Cardinality(Names))

Size(h, e) == IF e.kind = "file" THEN Len(h.files[e.hino]) ELSE 0

Err == [ok |-> FALSE]

\* a 64-bit field of struct stat: its four 16-bit limbs, the lowest first (a
\* negative i64 has the limbs of its two's complement)
Limb == 65536

U64(n) == <<n % Limb, n \div Limb, 0, 0>>

\* the S_IFMT bits of st_mode
TypeBits(kind) ==
    IF kind = "dir" THEN 16384 ELSE IF kind = "symlink" THEN 40960 ELSE 32768

\* std::fs::Metadata of the entry e: one link, no device, 4096-byte blocks, the
\* inode changed at the epoch
Stat(h, e) ==
    [ok |-> TRUE, kind |-> e.kind, size |-> Size(h, e), mode |-> TypeBits(e.kind) + e.perm,
     nlink |-> U64(1), uid |-> e.uid, gid |-> e.gid, rdev |-> U64(0), blksize |-> U64(4096),
     ctime |-> U64(0)]

\* fs::metadata: stat, following links
metadata(h, p) ==
    LET c == Real(h, p, TRUE)
        e == EntryAt(h, c.path)
    IN  IF c.ok /\ e.kind # "none"
        THEN Stat(h, e)
        ELSE Err

\* fs::symlink_metadata: lstat
symlink_metadata(h, p) ==
    LET c == Real(h, p, FALSE)
        e == EntryAt(h, c.path)
    IN  IF c.ok /\ e.kind # "none"
        THEN Stat(h, e)
        ELSE Err

\* Path::exists
exists(h, p) == metadata(h, p).ok

\* fs::create_dir
create_dir(h, p) ==
    LET c == Real(h, p, FALSE) IN
    IF c.ok /\ Len(c.path) <= MaxDepth /\ EntryAt(h, c.path).kind = "none"
    THEN [ok |-> TRUE, host |-> [h EXCEPT !.tree[c.path] = DirEntry]]
    ELSE [ok |-> FALSE, host |-> h]

\* fs::remove_file
remove_file(h, p) ==
    LET c == Real(h, p, FALSE) IN
    IF c.ok /\ EntryAt(h, c.path).kind \in {"file", "symlink"}
    THEN [ok |-> TRUE, host |-> [h EXCEPT !.tree[c.path] = NoEntry]]
    ELSE [ok |-> FALSE, host |-> h]

\* fs::remove_dir_all: the directory goes with everything below it
remove_dir_all(h, p) ==
    LET c == Real(h, p, FALSE) IN
    IF c.ok /\ c.path # <<>> /\ EntryAt(h, c.path).kind = "dir"
    THEN [ok |-> TRUE,
          host |-> [h EXCEPT !.tree = [q \in Paths |->
                        IF IsPrefix(c.path, q) THEN NoEntry ELSE h.tree[q]]]]
    ELSE [ok |-> FALSE, host |-> h]

\* fs::remove_dir
remove_dir(h, p) ==
    LET c == Real(h, p, FALSE) IN
    IF c.ok /\ c.path # <<>> /\ EntryAt(h, c.path).kind = "dir" /\ Children(h, c.path) = {}
    THEN [ok |-> TRUE, host |-> [h EXCEPT !.tree[c.path] = NoEntry]]
    ELSE [ok |-> FALSE, host |-> h]

\* std::os::unix::fs::symlink
symlink_at(h, target, p) ==
    LET c == Real(h, p, FALSE) IN
    IF c.ok /\ Len(c.path) <= MaxDepth /\ EntryAt(h, c.path).kind = "none"
    THEN [ok |-> TRUE, host |-> [h EXCEPT !.tree[c.path] = LinkEntry(target)]]
    ELSE [ok |-> FALSE, host |-> h]

\* fs::read_link
read_link(h, p) ==
    LET c == Real(h, p, FALSE)
        e == EntryAt(h, c.path)
    IN  IF c.ok /\ e.kind = "symlink" THEN [ok |-> TRUE, target |-> e.target] ELSE Err

\* rename(2) may replace `to` by `from`
Replaces(h, from, to) ==
    LET ef == EntryAt(h, from)
        et == EntryAt(h, to)
    IN  /\ ef.kind # "none"
        /\ Len(to) <= MaxDepth
        /\ IF ef.kind = "dir"
           THEN /\ et.kind = "none" \/ (et.kind = "dir" /\ Children(h, to) = {})
                /\ ~IsPrefix(from, to)
                /\ \A q \in Paths : (IsPrefix(from, q) /\ EntryAt(h, q).kind # "none")
                        => Len(Rebase(q, from, to)) <= MaxDepth
           ELSE et.kind # "dir"

\* fs::rename
rename_at(h, old, new) ==
    LET co == Real(h, old, FALSE)
        cn == Real(h, new, FALSE)
    IN  IF ~(co.ok /\ cn.ok /\ EntryAt(h, co.path).kind # "none") THEN [ok |-> FALSE, host |-> h]
        ELSE IF co.path = cn.path THEN [ok |-> TRUE, host |-> h]
        ELSE IF ~Replaces(h, co.path, cn.path) THEN [ok |-> FALSE, host |-> h]
        ELSE [ok |-> TRUE,
              host |-> [h EXCEPT !.tree = [q \in Paths |->
                  IF IsPrefix(cn.path, q) THEN EntryAt(h, Rebase(q, cn.path, co.path))
                  ELSE IF IsPrefix(co.path, q) THEN NoEntry
                  ELSE h.tree[q]]]]

\* fs::read_dir, and the names its iterator yields, in the host's order
read_dir(h, p, order) ==
    LET c == Real(h, p, TRUE) IN
    IF c.ok /\ EntryAt(h, c.path).kind = "dir"
    THEN [ok |-> TRUE, dir |-> c.path,
          names |-> SelectSeq(order, LAMBDA n : n \in Children(h, c.path))]
    ELSE [ok |-> FALSE, dir |-> <<>>, names |-> <<>>]

\* the host refuses to grow a file beyond this (EFBIG)
MaxFileLen == 3

Min(x, y) == IF x <= y THEN x ELSE y

\* the lowest host inode number no file uses
FreshHino(h) ==
    CHOOSE n \in 1..(Cardinality(DOMAIN h.files) + 1) :
        n \notin DOMAIN h.files /\ \A m \in 1..(n - 1) : m \in DOMAIN h.files

\* std::fs::File: an open file description
FileOf(e, o) ==
    [kind |-> e.kind, hino |-> e.hino, read |-> o.read, write |-> o.write,
     append |-> o.append, pos |-> 0]

NoFile == [kind |-> "none", hino |-> 0, read |-> FALSE, write |-> FALSE, append |-> FALSE, pos |-> 0]

\* OpenOptions::open refuses these combinations before it calls the host (EINVAL)
ValidOptions(o) ==
    /\ o.read \/ o.write \/ o.append
    /\ (~o.write /\ ~o.append) => ~(o.truncate \/ o.create)
    /\ o.append => ~o.truncate

\* OpenOptions::open that truncates every regular file it opens for writing
open_at_truncating(h, p, o) ==
    LET c == Real(h, p, TRUE)
        e == EntryAt(h, c.path)
        no == [ok |-> FALSE, file |-> NoFile, host |-> h]
    IN  IF ~ValidOptions(o) \/ ~c.ok THEN no
        ELSE CASE e.kind = "file" ->
                    IF (o.write \/ o.append) /\ ~MayWrite(e) THEN no
                    ELSE [ok |-> TRUE, file |-> FileOf(e, o),
                          host |-> [h EXCEPT !.files[e.hino] = <<>>]]
               [] e.kind = "dir" ->
                    IF o.write \/ o.append THEN no
                    ELSE [ok |-> TRUE, file |-> FileOf(e, o), host |-> h]
               [] OTHER ->
                    IF o.create /\ Len(c.path) <= MaxDepth
                    THEN LET i == FreshHino(h) IN
                         [ok |-> TRUE, file |-> FileOf(FileEntry(i), o),
                          host |-> [tree |-> [h.tree EXCEPT ![c.path] = FileEntry(i)],
                                    files |-> Insert(h.files, i, <<>>)]]
                    ELSE no

\* OpenOptions::open
open_at(h, p, o) ==
    LET c == Real(h, p, TRUE)
        e == EntryAt(h, c.path)
        no == [ok |-> FALSE, file |-> NoFile, host |-> h]
    IN  IF ~ValidOptions(o) \/ ~c.ok THEN no
        ELSE CASE e.kind = "file" ->
                    IF (o.write \/ o.append) /\ ~MayWrite(e) THEN no
                    ELSE [ok |-> TRUE, file |-> FileOf(e, o),
                          host |-> IF o.truncate THEN [h EXCEPT !.files[e.hino] = <<>>] ELSE h]
               [] e.kind = "dir" ->
                    IF o.write \/ o.append THEN no
                    ELSE [ok |-> TRUE, file |-> FileOf(e, o), host |-> h]
               [] OTHER ->
                    IF o.create /\ Len(c.path) <= MaxDepth
                    THEN LET i == FreshHino(h) IN
                         [ok |-> TRUE, file |-> FileOf(FileEntry(i), o),
                          host |-> [tree |-> [h.tree EXCEPT ![c.path] = FileEntry(i)],
                                    files |-> Insert(h.files, i, <<>>)]]
                    ELSE no

\* seek_read with a buffer as large as the rest of the file
seek_read_whole(h, f, offset, size) ==
    IF f.kind # "file" \/ ~f.read THEN [ok |-> FALSE, data |-> <<>>, file |-> [f EXCEPT !.pos = offset]]
    ELSE LET content == h.files[f.hino]
             data == SubSeq(content, offset + 1, Len(content))
         IN  [ok |-> TRUE, data |-> data, file |-> [f EXCEPT !.pos = offset + Len(data)]]

\* File::seek(SeekFrom::Start(offset)) followed by File::read into a buffer of
\* `size` bytes
seek_read(h, f, offset, size) ==
    IF f.kind # "file" \/ ~f.read THEN [ok |-> FALSE, data |-> <<>>, file |-> [f EXCEPT !.pos = offset]]
    ELSE LET content == h.files[f.hino]
             data == SubSeq(content, offset + 1, Min(offset + size, Len(content)))
         IN  [ok |-> TRUE, data |-> data, file |-> [f EXCEPT !.pos = offset + Len(data)]]

Zeros(n) == [i \in 1..n |-> 0]

\* seek_write without the seek: the data lands where the last read or write on
\* the file description ended
seek_write_at_cursor(h, f, offset, data) ==
    LET content == h.files[f.hino]
        at == IF f.append THEN Len(content) ELSE f.pos
        n == Min(Len(data), MaxFileLen - at)
        padded == IF at > Len(content) THEN content \o Zeros(at - Len(content)) ELSE content
        after == SubSeq(padded, 1, at) \o SubSeq(data, 1, n)
                    \o SubSeq(padded, at + n + 1, Len(padded))
    IN  IF f.kind # "file" \/ ~f.write \/ (n <= 0 /\ Len(data) > 0)
        THEN [ok |-> FALSE, written |-> 0, file |-> f, host |-> h]
        ELSE [ok |-> TRUE, written |-> n, file |-> [f EXCEPT !.pos = at + n],
              host |-> IF n = 0 THEN h ELSE [h EXCEPT !.files[f.hino] = after]]

\* seek_write on a file description whose append flag was lost: the data lands
\* at offset
seek_write_at_offset(h, f, offset, data) ==
    LET content == h.files[f.hino]
        n == Min(Len(data), MaxFileLen - offset)
        padded == IF offset > Len(content) THEN content \o Zeros(offset - Len(content)) ELSE content
        after == SubSeq(padded, 1, offset) \o SubSeq(data, 1, n)
                    \o SubSeq(padded, offset + n + 1, Len(padded))
    IN  IF f.kind # "file" \/ ~f.write \/ (n <= 0 /\ Len(data) > 0)
        THEN [ok |-> FALSE, written |-> 0, file |-> [f EXCEPT !.pos = offset], host |-> h]
        ELSE [ok |-> TRUE, written |-> n, file |-> [f EXCEPT !.pos = offset + n],
              host |-> IF n = 0 THEN h ELSE [h EXCEPT !.files[f.hino] = after]]

\* File::seek(SeekFrom::Start(offset)) followed by one File::write of data: at the
\* end of the file if it was opened for append, else at offset; short when the
\* file would outgrow the host's limit
seek_write(h, f, offset, data) ==
    LET content == h.files[f.hino]
        at == IF f.append THEN Len(content) ELSE offset
        n == Min(Len(data), MaxFileLen - at)
        padded == IF at > Len(content) THEN content \o Zeros(at - Len(content)) ELSE content
        after == SubSeq(padded, 1, at) \o SubSeq(data, 1, n)
                    \o SubSeq(padded, at + n + 1, Len(padded))
    IN  IF f.kind # "file" \/ ~f.write \/ (n <= 0 /\ Len(data) > 0)
        THEN [ok |-> FALSE, written |-> 0, file |-> [f EXCEPT !.pos = offset], host |-> h]
        ELSE [ok |-> TRUE, written |-> n, file |-> [f EXCEPT !.pos = at + n],
              host |-> IF n = 0 THEN h ELSE [h EXCEPT !.files[f.hino] = after]]

\* OpenOptions::new().write(true).open(path) and File::set_len(size)
set_len_at(h, p, size) ==
    LET r == open_at(h, p, [read |-> FALSE, write |-> TRUE, append |-> FALSE,
                            create |-> FALSE, truncate |-> FALSE])
        content == h.files[r.file.hino]
    IN  IF ~r.ok \/ size > MaxFileLen THEN h
        ELSE [h EXCEPT !.files[r.file.hino] =
                  IF size <= Len(content) THEN SubSeq(content, 1, size)
                  ELSE content \o Zeros(size - Len(content))]

\* fs::set_permissions(path, Permissions::from_mode(mode)): chmod, which follows
\* links, keeps the lower 12 bits of mode, and is refused to all but the owner
set_permissions(h, p, mode) ==
    LET c == Real(h, p, TRUE)
        e == EntryAt(h, c.path)
    IN  IF c.ok /\ e.kind # "none" /\ e.uid = Euid
        THEN [ok |-> TRUE, host |-> [h EXCEPT !.tree[c.path].perm = mode % 4096]]
        ELSE [ok |-> FALSE, host |-> h]

\* u32::MAX, which chown takes for `leave as it is`
Keep == -1

\* libc::chown(path, uid, gid): follows links; the owner may give the entry to
\* one of its own groups, and nobody without privileges may change the owner
chown(h, p, uid, gid) ==
    LET c == Real(h, p, TRUE)
        e == EntryAt(h, c.path)
    IN  IF c.ok /\ e.kind # "none" /\ e.uid = Euid /\ uid \in {Keep, e.uid}
        THEN [ok |-> TRUE,
              host |-> [h EXCEPT !.tree[c.path].gid = IF gid = Keep THEN @ ELSE gid]]
        ELSE [ok |-> FALSE, host |-> h]

\* the host frees a file when no directory entry and no open file refers to it
Collect(h, files_open) ==
    LET live == {h.tree[p].hino : p \in {q \in Paths : h.tree[q].kind = "file"}}
                    \cup {f.hino : f \in {g \in files_open : g.kind = "file"}}
    IN  [h EXCEPT !.files = [i \in (DOMAIN h.files) \cap live |-> h.files[i]]]

----------------------------------------------------------------------------
(* Requests, replies and the locals of a handler *)

ENOENT == "ENOENT"

ENOSYS == "ENOSYS"

EIO == "EIO"

EEXIST == "EEXIST"

NoReply == [kind |-> "none"]

ReplyError(e) == [kind |-> "error", errno |-> e]

ReplyOk == [kind |-> "ok"]

\* the arguments the kernel sends with a request; a handler reads only its own
NoFlags == [acc |-> "O_RDONLY", append |-> FALSE, trunc |-> FALSE]

NoReq ==
    [op |-> "none", ino |-> 0, name |-> "", newparent |-> 0, newname |-> "",
     target |-> "", order |-> <<>>, offset |-> 0, cap |-> 0,
     fh |-> 0, flags |-> NoFlags, size |-> 0, data |-> <<>>, newsize |-> -1,
     mode |-> -1, uid |-> -1, gid |-> -1]

\* a thread that has just been handed request r; `concurrent` records that
\* another worker was serving a request when this one was handed its own, and
\* `first_free` the value next_inode had then (a local of the worker, dropped
\* with the others when the handler returns)
NewThread(r) ==
    [pc |-> "start", req |-> r, nreply |-> 0, reply |-> NoReply,
     parent_path |-> <<>>, newparent_path |-> <<>>, relative_path |-> <<>>,
     new_relative |-> <<>>, inode |-> 0, md |-> Err, ret |-> "",
     names |-> <<>>, all_entries |-> <<>>, file |-> NoFile, fh |-> 0, hostcalls |-> 0,
     panicked |-> FALSE, concurrent |-> FALSE, first_free |-> 0]

Idle == [NewThread(NoReq) EXCEPT !.pc = "idle"]

\* reply.error / reply.entry / reply.ok ...: one reply sent
Send(T, v) == [T EXCEPT !.nreply = @ + 1, !.reply = v]

\* the handler returns: its locals are dropped
Return(T) ==
    [NewThread(T.req) EXCEPT !.pc = "done", !.nreply = T.nreply, !.reply = T.reply,
                             !.hostcalls = T.hostcalls, !.concurrent = T.concurrent]

\* the handler panics: the thread unwinds, its locals are dropped, and fuser's
\* Drop of the reply object that was never used answers the request with EIO;
\* the session loop, which ran the handler, ends with the thread
Panic(T) == [Return(Send(T, ReplyError(EIO))) EXCEPT !.panicked = TRUE]

\* the outcome of one micro-step of thread t: the shared state and the thread after
\* it, or blocked when the step waits for a mutex another thread holds
Res(S, T) == [S |-> S, T |-> T, blocked |-> FALSE, on |-> ""]

Block(S, T, m) == [S |-> S, T |-> T, blocked |-> TRUE, on |-> m]

Held(S, m) == S.mutex[m] # 0

----------------------------------------------------------------------------
(* impl PassthroughFS *)

\* PassthroughFS::new: the tables of a fresh session
new ==
    [inode_to_path |-> (1 :> <<>>),
     path_to_inode |-> (<<>> :> 1),
     next_inode |-> 2,
     open_files |-> <<>>,
     next_fh |-> 1]

\* get_path falling back to the root's path for an id it does not hold
get_path_or_default(S, inode) ==
    IF Has(S.inode_to_path, inode)
    THEN [some |-> TRUE, path |-> S.inode_to_path[inode]]
    ELSE [some |-> TRUE, path |-> <<>>]

\* get_path, inside its lock
get_path(S, inode) ==
    IF Has(S.inode_to_path, inode)
    THEN [some |-> TRUE, path |-> S.inode_to_path[inode]]
    ELSE [some |-> FALSE, path |-> <<>>]

\* get_or_create_inode without the look-up of the path: every call allocates
get_or_create_inode_always(S, T, t) ==
    CASE T.pc = "goci" ->
            IF Held(S, "path_to_inode") THEN Block(S, T, "path_to_inode")
            ELSE Res([S EXCEPT !.mutex.path_to_inode = t,
                               !.next_inode = @ + 1,
                               !.path_to_inode = Insert(@, T.relative_path, S.next_inode)],
                     [T EXCEPT !.inode = S.next_inode, !.pc = "goci_insert"])
      [] T.pc = "goci_insert" ->
            IF Held(S, "inode_to_path") THEN Block(S, T, "inode_to_path")
            ELSE Res([S EXCEPT !.inode_to_path = Insert(@, T.inode, T.relative_path),
                               !.mutex.path_to_inode = 0],
                     [T EXCEPT !.pc = T.ret])

\* the lowest id above the root's that inode_to_path does not hold
LowestFree(S) == CHOOSE i \in 2..S.next_inode : ~Has(S.inode_to_path, i) /\
                     \A j \in 2..(i - 1) : Has(S.inode_to_path, j)

\* get_or_create_inode handing out the lowest free id instead of the counter's
get_or_create_inode_reuse(S, T, t) ==
    CASE T.pc = "goci" ->
            IF Held(S, "path_to_inode") THEN Block(S, T, "path_to_inode")
            ELSE IF Has(S.path_to_inode, T.relative_path)
            THEN Res(S, [T EXCEPT !.inode = S.path_to_inode[T.relative_path], !.pc = T.ret])
            ELSE Res([S EXCEPT !.mutex.path_to_inode = t,
                               !.next_inode = IF LowestFree(S) = @ THEN @ + 1 ELSE @,
                               !.path_to_inode = Insert(@, T.relative_path, LowestFree(S))],
                     [T EXCEPT !.inode = LowestFree(S), !.pc = "goci_insert"])
      [] T.pc = "goci_insert" ->
            IF Held(S, "inode_to_path") THEN Block(S, T, "inode_to_path")
            ELSE Res([S EXCEPT !.inode_to_path = Insert(@, T.inode, T.relative_path),
                               !.mutex.path_to_inode = 0],
                     [T EXCEPT !.pc = T.ret])

\* get_or_create_inode that drops the guard of path_to_inode between the look-up
\* and the insertion: a check followed by an unguarded act
get_or_create_inode_unguarded(S, T, t) ==
    CASE T.pc = "goci" ->
            IF Held(S, "path_to_inode") THEN Block(S, T, "path_to_inode")
            ELSE IF Has(S.path_to_inode, T.relative_path)
            THEN Res(S, [T EXCEPT !.inode = S.path_to_inode[T.relative_path], !.pc = T.ret])
            ELSE Res(S, [T EXCEPT !.pc = "goci_insert"])
      [] T.pc = "goci_insert" ->
            IF Held(S, "path_to_inode") THEN Block(S, T, "path_to_inode")
            ELSE IF Held(S, "inode_to_path") THEN Block(S, T, "inode_to_path")
            ELSE Res([S EXCEPT !.next_inode = @ + 1,
                               !.path_to_inode = Insert(@, T.relative_path, S.next_inode),
                               !.inode_to_path = Insert(@, S.next_inode, T.relative_path)],
                     [T EXCEPT !.inode = S.next_inode, !.pc = T.ret])

\* get_or_create_inode(T.relative_path), returning to pc T.ret with T.inode set.
\*   goci:        path_to_inode.lock(); get; on a miss fetch_add and insert
\*   goci_insert: inode_to_path.lock().insert(..), both guards dropped
get_or_create_inode(S, T, t) ==
    CASE T.pc = "goci" ->
            IF Held(S, "path_to_inode") THEN Block(S, T, "path_to_inode")
            ELSE IF Has(S.path_to_inode, T.relative_path)
            THEN Res(S, [T EXCEPT !.inode = S.path_to_inode[T.relative_path], !.pc = T.ret])
            ELSE Res([S EXCEPT !.mutex.path_to_inode = t,
                               !.next_inode = @ + 1,
                               !.path_to_inode = Insert(@, T.relative_path, S.next_inode)],
                     [T EXCEPT !.inode = S.next_inode, !.pc = "goci_insert"])
      [] T.pc = "goci_insert" ->
            IF Held(S, "inode_to_path") THEN Block(S, T, "inode_to_path")
            ELSE Res([S EXCEPT !.inode_to_path = Insert(@, T.inode, T.relative_path),
                               !.mutex.path_to_inode = 0],
                     [T EXCEPT !.pc = T.ret])

\* `x as u32` of a 64-bit value: its two low limbs
as_u32(w) == SubSeq(w, 1, 2)

\* a handler that panics: the thread unwinds and the record is never made
Panicked == [panic |-> TRUE]

\* `SystemTime::UNIX_EPOCH + Duration::from_secs(secs as u64)`: the cast keeps the
\* bits, and the addition panics when the sum is beyond i64::MAX seconds
epoch_plus_secs(secs) ==
    IF secs[4] >= Limb \div 2 THEN Panicked ELSE [panic |-> FALSE, secs |-> secs]

\* metadata_to_attr
metadata_to_attr(md, inode) ==
    LET ctime == epoch_plus_secs(md.ctime) IN
    IF ctime.panic THEN Panicked
    ELSE [ino |-> inode,
          size |-> md.size,
          ctime |-> ctime.secs,
          kind |-> IF md.kind = "dir" THEN "Directory"
                   ELSE IF md.kind = "symlink" THEN "Symlink"
                   ELSE "RegularFile",
          perm |-> (md.mode % 4096) % Limb,
          nlink |-> as_u32(md.nlink),
          uid |-> md.uid,
          gid |-> md.gid,
          rdev |-> as_u32(md.rdev),
          blksize |-> as_u32(md.blksize)]

ReplyEntry(attr) == [kind |-> "entry", attr |-> attr]

ReplyAttr(attr) == [kind |-> "attr", attr |-> attr]

ReplyData(bytes) == [kind |-> "data", data |-> bytes]

----------------------------------------------------------------------------
(* impl Filesystem for PassthroughFS: one micro-step of each handler *)

\* `let parent_path = match self.get_path(ino) { Some(p) => p, None => { reply.error(ENOENT); return; } }`
\* followed by the join with the name; the handler goes on at pc next
resolve_parent(S, T, next) ==
    LET r == get_path(S, T.req.ino) IN
    IF Held(S, "inode_to_path") THEN Block(S, T, "inode_to_path")
    ELSE IF ~r.some THEN Res(S, Return(Send(T, ReplyError(ENOENT))))
    ELSE Res(S, [T EXCEPT !.parent_path = r.path,
                          !.relative_path = join(r.path, T.req.name),
                          !.pc = next])

\* the same for a handler that works on the node itself
resolve_ino(S, T, next) ==
    LET r == get_path(S, T.req.ino) IN
    IF Held(S, "inode_to_path") THEN Block(S, T, "inode_to_path")
    ELSE IF ~r.some THEN Res(S, Return(Send(T, ReplyError(ENOENT))))
    ELSE Res(S, [T EXCEPT !.relative_path = r.path, !.pc = next])

lookup(S, T, t) ==
    CASE T.pc = "start" -> resolve_parent(S, T, "metadata")
      [] T.pc = "metadata" ->
            LET md == metadata(S.host, T.relative_path) IN
            IF md.ok THEN Res(S, [T EXCEPT !.md = md, !.pc = "goci", !.ret = "entry"])
            ELSE Res(S, Return(Send(T, ReplyError(ENOENT))))
      [] OTHER ->
            LET r == get_or_create_inode(S, T, t) IN
            IF r.T.pc = "entry"
            THEN Res(r.S, Return(Send(r.T, ReplyEntry(metadata_to_attr(r.T.md, r.T.inode)))))
            ELSE r

\* a getattr that takes the id of an entry the host no longer has out of the maps
getattr_purging(S, T, t) ==
    CASE T.pc = "start" -> resolve_ino(S, T, "metadata")
      [] T.pc = "metadata" ->
            LET md == metadata(S.host, T.relative_path) IN
            IF md.ok THEN Res(S, Return(Send(T, ReplyAttr(metadata_to_attr(md, T.req.ino)))))
            ELSE Res([S EXCEPT !.inode_to_path = Remove(@, T.req.ino),
                               !.path_to_inode = [q \in {x \in DOMAIN @ : @[x] # T.req.ino} |-> @[q]]],
                     Return(Send(T, ReplyError(ENOENT))))

getattr(S, T, t) ==
    CASE T.pc = "start" -> resolve_ino(S, T, "metadata")
      [] T.pc = "metadata" ->
            LET md == metadata(S.host, T.relative_path) IN
            IF md.ok THEN Res(S, Return(Send(T, ReplyAttr(metadata_to_attr(md, T.req.ino)))))
            ELSE Res(S, Return(Send(T, ReplyError(ENOENT))))

access(S, T, t) ==
    CASE T.pc = "start" -> resolve_ino(S, T, "exists")
      [] T.pc = "exists" ->
            IF exists(S.host, T.relative_path) THEN Res(S, Return(Send(T, ReplyOk)))
            ELSE Res(S, Return(Send(T, ReplyError(ENOENT))))

readlink(S, T, t) ==
    CASE T.pc = "start" -> resolve_ino(S, T, "read_link")
      [] T.pc = "read_link" ->
            LET r == read_link(S.host, T.relative_path) IN
            IF r.ok THEN Res(S, Return(Send(T, ReplyData(r.target))))
            ELSE Res(S, Return(Send(T, ReplyError(ENOENT))))

\* mkdir that takes a directory that is already there for the one it was to make
mkdir_exist_ok(S, T, t) ==
    CASE T.pc = "start" -> resolve_parent(S, T, "create_dir")
      [] T.pc = "create_dir" ->
            LET r == create_dir(S.host, T.relative_path) IN
            IF r.ok \/ metadata(S.host, T.relative_path).ok
            THEN Res([S EXCEPT !.host = r.host], [T EXCEPT !.pc = "goci", !.ret = "metadata"])
            ELSE Res(S, Return(Send(T, ReplyError(EEXIST))))
      [] T.pc = "metadata" ->
            LET md == metadata(S.host, T.relative_path) IN
            IF md.ok THEN Res(S, Return(Send(T, ReplyEntry(metadata_to_attr(md, T.inode)))))
            ELSE Res(S, Return(Send(T, ReplyError(ENOENT))))
      [] OTHER -> get_or_create_inode(S, T, t)

\* (fs::set_permissions after create_dir: its result is discarded and permission
\* bits are not part of this model)
mkdir(S, T, t) ==
    CASE T.pc = "start" -> resolve_parent(S, T, "create_dir")
      [] T.pc = "create_dir" ->
            LET r == create_dir(S.host, T.relative_path) IN
            IF r.ok THEN Res([S EXCEPT !.host = r.host], [T EXCEPT !.pc = "goci", !.ret = "metadata"])
            ELSE Res(S, Return(Send(T, ReplyError(EEXIST))))
      [] T.pc = "metadata" ->
            LET md == metadata(S.host, T.relative_path) IN
            IF md.ok THEN Res(S, Return(Send(T, ReplyEntry(metadata_to_attr(md, T.inode)))))
            ELSE Res(S, Return(Send(T, ReplyError(ENOENT))))
      [] OTHER -> get_or_create_inode(S, T, t)

\* a symlink that takes the attributes it replies from the stat that follows links
symlink_following(S, T, t) ==
    CASE T.pc = "start" -> resolve_parent(S, T, "symlink")
      [] T.pc = "symlink" ->
            LET r == symlink_at(S.host, T.req.target, T.relative_path) IN
            IF r.ok THEN Res([S EXCEPT !.host = r.host], [T EXCEPT !.pc = "goci", !.ret = "metadata"])
            ELSE Res(S, Return(Send(T, ReplyError(ENOSYS))))
      [] T.pc = "metadata" ->
            LET md == metadata(S.host, T.relative_path) IN
            IF md.ok THEN Res(S, Return(Send(T, ReplyEntry(metadata_to_attr(md, T.inode)))))
            ELSE Res(S, Return(Send(T, ReplyError(ENOENT))))
      [] OTHER -> get_or_create_inode(S, T, t)

symlink(S, T, t) ==
    CASE T.pc = "start" -> resolve_parent(S, T, "symlink")
      [] T.pc = "symlink" ->
            LET r == symlink_at(S.host, T.req.target, T.relative_path) IN
            IF r.ok THEN Res([S EXCEPT !.host = r.host], [T EXCEPT !.pc = "goci", !.ret = "metadata"])
            ELSE Res(S, Return(Send(T, ReplyError(ENOSYS))))
      [] T.pc = "metadata" ->
            LET md == symlink_metadata(S.host, T.relative_path) IN
            IF md.ok THEN Res(S, Return(Send(T, ReplyEntry(metadata_to_attr(md, T.inode)))))
            ELSE Res(S, Return(Send(T, ReplyError(ENOENT))))
      [] OTHER -> get_or_create_inode(S, T, t)

\* forget without the removal from inode_to_path
forget_forward_only(S, T, t) ==
    CASE T.pc = "forget" ->
            IF Held(S, "path_to_inode") THEN Block(S, T, "path_to_inode")
            ELSE Res([S EXCEPT !.path_to_inode = Remove(@, T.relative_path)],
                     Return(Send(T, ReplyOk)))

\* forget given the path of the parent directory instead of the entry's
forget_parent(S, T, t) ==
    CASE T.pc = "forget" ->
            IF Held(S, "path_to_inode") THEN Block(S, T, "path_to_inode")
            ELSE IF Has(S.path_to_inode, T.parent_path)
            THEN Res([S EXCEPT !.mutex.path_to_inode = t,
                               !.path_to_inode = Remove(@, T.parent_path)],
                     [T EXCEPT !.inode = S.path_to_inode[T.parent_path], !.pc = "forget_inode"])
            ELSE Res(S, Return(Send(T, ReplyOk)))
      [] T.pc = "forget_inode" ->
            IF Held(S, "inode_to_path") THEN Block(S, T, "inode_to_path")
            ELSE Res([S EXCEPT !.inode_to_path = Remove(@, T.inode),
                               !.mutex.path_to_inode = 0],
                     Return(Send(T, ReplyOk)))

\* the two maps locked in the other order: inode_to_path first
forget_reversed(S, T, t) ==
    CASE T.pc = "forget" ->
            IF Held(S, "inode_to_path") THEN Block(S, T, "inode_to_path")
            ELSE Res([S EXCEPT !.mutex.inode_to_path = t], [T EXCEPT !.pc = "forget_inode"])
      [] T.pc = "forget_inode" ->
            IF Held(S, "path_to_inode") THEN Block(S, T, "path_to_inode")
            ELSE IF Has(S.path_to_inode, T.relative_path)
            THEN Res([S EXCEPT !.path_to_inode = Remove(@, T.relative_path),
                               !.inode_to_path = Remove(@, S.path_to_inode[T.relative_path]),
                               !.mutex.inode_to_path = 0],
                     Return(Send(T, ReplyOk)))
            ELSE Res([S EXCEPT !.mutex.inode_to_path = 0], Return(Send(T, ReplyOk)))

\* `if let Some(inode) = self.path_to_inode.lock().unwrap().remove(&relative_path)
\*      { self.inode_to_path.lock().unwrap().remove(&inode); }  reply.ok();`
\* The guard of path_to_inode is a temporary of the scrutinee: it lives to the end
\* of the `if let`, over the locking of inode_to_path.
forget(S, T, t) ==
    CASE T.pc = "forget" ->
            IF Held(S, "path_to_inode") THEN Block(S, T, "path_to_inode")
            ELSE IF Has(S.path_to_inode, T.relative_path)
            THEN Res([S EXCEPT !.mutex.path_to_inode = t,
                               !.path_to_inode = Remove(@, T.relative_path)],
                     [T EXCEPT !.inode = S.path_to_inode[T.relative_path], !.pc = "forget_inode"])
            ELSE Res(S, Return(Send(T, ReplyOk)))
      [] T.pc = "forget_inode" ->
            IF Held(S, "inode_to_path") THEN Block(S, T, "inode_to_path")
            ELSE Res([S EXCEPT !.inode_to_path = Remove(@, T.inode),
                               !.mutex.path_to_inode = 0],
                     Return(Send(T, ReplyOk)))

\* an unlink that takes the path out of the maps although the host refused to
\* remove it
unlink_forgetting(S, T, t) ==
    CASE T.pc = "start" -> resolve_parent(S, T, "remove_file")
      [] T.pc = "remove_file" ->
            LET r == remove_file(S.host, T.relative_path) IN
            IF r.ok THEN Res([S EXCEPT !.host = r.host], [T EXCEPT !.pc = "forget"])
            ELSE Res([S EXCEPT !.path_to_inode = [q \in DOMAIN @ \ {T.relative_path} |-> @[q]],
                               !.inode_to_path = [i \in {x \in DOMAIN @ : @[x] # T.relative_path} |-> @[i]]],
                     Return(Send(T, ReplyError(ENOENT))))
      [] OTHER -> forget(S, T, t)

\* an unlink that also drops every handle open on the file it removes
unlink_closing(S, T, t) ==
    CASE T.pc = "start" -> resolve_parent(S, T, "remove_file")
      [] T.pc = "remove_file" ->
            LET r == remove_file(S.host, T.relative_path)
                gone == EntryAt(S.host, Real(S.host, T.relative_path, FALSE).path).hino
            IN
            IF r.ok THEN Res([S EXCEPT !.host = r.host,
                                       !.open_files = [h \in {x \in DOMAIN @ : @[x].hino # gone} |-> @[h]]],
                             [T EXCEPT !.pc = "forget"])
            ELSE Res(S, Return(Send(T, ReplyError(ENOENT))))
      [] OTHER -> forget(S, T, t)

unlink(S, T, t) ==
    CASE T.pc = "start" -> resolve_parent(S, T, "remove_file")
      [] T.pc = "remove_file" ->
            LET r == remove_file(S.host, T.relative_path) IN
            IF r.ok THEN Res([S EXCEPT !.host = r.host], [T EXCEPT !.pc = "forget"])
            ELSE Res(S, Return(Send(T, ReplyError(ENOENT))))
      [] OTHER -> forget(S, T, t)

rmdir(S, T, t) ==
    CASE T.pc = "start" -> resolve_parent(S, T, "remove_dir")
      [] T.pc = "remove_dir" ->
            LET r == remove_dir(S.host, T.relative_path) IN
            IF r.ok THEN Res([S EXCEPT !.host = r.host], [T EXCEPT !.pc = "forget"])
            ELSE Res(S, Return(Send(T, ReplyError(ENOENT))))
      [] OTHER -> forget(S, T, t)

\* the mapping moved in path_to_inode only
update_mapping_forward_only(S, T, t) ==
    CASE T.pc = "update" ->
            IF Held(S, "path_to_inode") THEN Block(S, T, "path_to_inode")
            ELSE IF Has(S.path_to_inode, T.relative_path)
            THEN LET inode == S.path_to_inode[T.relative_path] IN
                 Res([S EXCEPT !.path_to_inode = Insert(Remove(@, T.relative_path), T.new_relative, inode)],
                     Return(Send(T, ReplyOk)))
            ELSE Res(S, Return(Send(T, ReplyOk)))

\* the mapping moved with the guard of path_to_inode given up before inode_to_path
\* is locked
update_mapping_released(S, T, t) ==
    CASE T.pc = "update" ->
            IF Held(S, "path_to_inode") THEN Block(S, T, "path_to_inode")
            ELSE IF Has(S.path_to_inode, T.relative_path)
            THEN LET inode == S.path_to_inode[T.relative_path] IN
                 Res([S EXCEPT !.path_to_inode = Insert(Remove(@, T.relative_path), T.new_relative, inode)],
                     [T EXCEPT !.inode = inode, !.pc = "update_inode"])
            ELSE Res(S, Return(Send(T, ReplyOk)))
      [] T.pc = "update_inode" ->
            IF Held(S, "inode_to_path") THEN Block(S, T, "inode_to_path")
            ELSE Res([S EXCEPT !.inode_to_path = Insert(@, T.inode, T.new_relative)],
                     Return(Send(T, ReplyOk)))

\* `{ let mut path_to_inode = self.path_to_inode.lock().unwrap();
\*     if let Some(inode) = path_to_inode.remove(&old_relative) {
\*         path_to_inode.insert(new_relative.clone(), inode);
\*         self.inode_to_path.lock().unwrap().insert(inode, new_relative); } }  reply.ok();`
update_mapping(S, T, t) ==
    CASE T.pc = "update" ->
            IF Held(S, "path_to_inode") THEN Block(S, T, "path_to_inode")
            ELSE IF Has(S.path_to_inode, T.relative_path)
            THEN LET inode == S.path_to_inode[T.relative_path] IN
                 Res([S EXCEPT !.mutex.path_to_inode = t,
                               !.path_to_inode = Insert(Remove(@, T.relative_path), T.new_relative, inode)],
                     [T EXCEPT !.inode = inode, !.pc = "update_inode"])
            ELSE Res(S, Return(Send(T, ReplyOk)))
      [] T.pc = "update_inode" ->
            IF Held(S, "inode_to_path") THEN Block(S, T, "inode_to_path")
            ELSE Res([S EXCEPT !.inode_to_path = Insert(@, T.inode, T.new_relative),
                               !.mutex.path_to_inode = 0],
                     Return(Send(T, ReplyOk)))

rename(S, T, t) ==
    CASE T.pc = "start" ->
            LET r == get_path(S, T.req.ino) IN
            IF Held(S, "inode_to_path") THEN Block(S, T, "inode_to_path")
            ELSE IF ~r.some THEN Res(S, Return(Send(T, ReplyError(ENOENT))))
            ELSE Res(S, [T EXCEPT !.parent_path = r.path, !.pc = "newparent"])
      [] T.pc = "newparent" ->
            LET r == get_path(S, T.req.newparent) IN
            IF Held(S, "inode_to_path") THEN Block(S, T, "inode_to_path")
            ELSE IF ~r.some THEN Res(S, Return(Send(T, ReplyError(ENOENT))))
            ELSE Res(S, [T EXCEPT !.newparent_path = r.path,
                                  !.relative_path = join(T.parent_path, T.req.name),
                                  !.new_relative = join(r.path, T.req.newname),
                                  !.pc = "rename"])
      [] T.pc = "rename" ->
            LET r == rename_at(S.host, T.relative_path, T.new_relative) IN
            IF r.ok THEN Res([S EXCEPT !.host = r.host], [T EXCEPT !.pc = "update"])
            ELSE Res(S, Return(Send(T, ReplyError(ENOENT))))
      [] OTHER -> update_mapping(S, T, t)

\* the step of setattr that follows `stage`: truncate if size is given, chmod if
\* mode is given, chown if uid or gid is given, then the stat
NextStage(req, stage) ==
    IF stage < 1 /\ req.newsize # -1 THEN "set_len"
    ELSE IF stage < 2 /\ req.mode # -1 THEN "set_permissions"
    ELSE IF stage < 3 /\ (req.uid # -1 \/ req.gid # -1) THEN "chown"
    ELSE "metadata"

setattr(S, T, t) ==
    CASE T.pc = "start" -> resolve_ino(S, T, NextStage(T.req, 0))
      [] T.pc = "set_len" ->
            Res([S EXCEPT !.host = set_len_at(@, T.relative_path, T.req.newsize)],
                [T EXCEPT !.pc = NextStage(T.req, 1)])
      [] T.pc = "set_permissions" ->
            Res([S EXCEPT !.host = set_permissions(@, T.relative_path, T.req.mode).host],
                [T EXCEPT !.pc = NextStage(T.req, 2)])
      [] T.pc = "chown" ->
            IF ~to_str(T.relative_path).some THEN Res(S, Panic(T))
            ELSE Res([S EXCEPT !.host = chown(@, T.relative_path, T.req.uid, T.req.gid).host],
                     [T EXCEPT !.pc = NextStage(T.req, 3)])
      [] T.pc = "metadata" ->
            LET md == metadata(S.host, T.relative_path) IN
            IF md.ok THEN Res(S, Return(Send(T, ReplyAttr(metadata_to_attr(md, T.req.ino)))))
            ELSE Res(S, Return(Send(T, ReplyError(ENOENT))))

FileType(md) ==
    IF md.ok /\ md.kind = "dir" THEN "Directory"
    ELSE IF md.ok /\ md.kind = "symlink" THEN "Symlink"
    ELSE "RegularFile"

\* the reply of readdir with every entry numbered from 1 within its own reply
ReplyDirectory_renumbered(T) ==
    LET all == T.all_entries
        from == Min(T.req.offset, Len(all))
        n == Min(Len(all) - from, T.req.cap)
    IN  [kind |-> "directory",
         entries |-> [k \in 1..n |->
             [ino |-> all[from + k].ino, offset |-> k,
              kind |-> all[from + k].kind, name |-> all[from + k].name]]]

\* the second loop of readdir and its reply.ok(): the entries from `offset` on,
\* each with its index + 1, until reply.add reports the buffer full
ReplyDirectory(T) ==
    LET all == T.all_entries
        from == Min(T.req.offset, Len(all))
        n == Min(Len(all) - from, T.req.cap)
    IN  [kind |-> "directory",
         entries |-> [k \in 1..n |->
             [ino |-> all[from + k].ino, offset |-> from + k,
              kind |-> all[from + k].kind, name |-> all[from + k].name]]]

\* a readdir that skips the children before `offset` in its first loop too, so
\* that it interns only what it may return
readdir_from_offset(S, T, t) ==
    CASE T.pc = "start" -> resolve_ino(S, T, "read_dir")
      [] T.pc = "read_dir" ->
            LET r == read_dir(S.host, T.relative_path, T.req.order)
                skip == Min(Len(r.names), IF T.req.offset > 2 THEN T.req.offset - 2 ELSE 0)
                names == SubSeq(r.names, skip + 1, Len(r.names))
                dots == <<[ino |-> T.req.ino, kind |-> "Directory", name |-> "."],
                          [ino |-> T.req.ino, kind |-> "Directory", name |-> ".."]>>
                T1 == [T EXCEPT !.parent_path = T.relative_path, !.names = names,
                                !.all_entries = dots]
            IN  IF ~r.ok THEN Res(S, Return(Send(T, ReplyError(ENOENT))))
                ELSE IF names = <<>> THEN Res(S, Return(Send(T1, ReplyDirectory(T1))))
                ELSE Res(S, [T1 EXCEPT !.relative_path =
                                           join(T.relative_path, to_string_lossy(Head(names))),
                                       !.pc = "goci", !.ret = "entry_metadata"])
      [] T.pc = "entry_metadata" ->
            LET md == symlink_metadata(S.host, join(T.parent_path, Head(T.names)))
                T1 == [T EXCEPT !.all_entries = Append(@, [ino |-> T.inode, kind |-> FileType(md),
                                                           name |-> to_string_lossy(Head(T.names))]),
                                !.names = Tail(@)]
            IN  IF T1.names = <<>> THEN Res(S, Return(Send(T1, ReplyDirectory(T1))))
                ELSE Res(S, [T1 EXCEPT !.relative_path =
                                           join(T.parent_path, to_string_lossy(Head(T1.names))),
                                       !.pc = "goci", !.ret = "entry_metadata"])
      [] OTHER -> get_or_create_inode(S, T, t)

readdir(S, T, t) ==
    CASE T.pc = "start" -> resolve_ino(S, T, "read_dir")
      [] T.pc = "read_dir" ->
            LET r == read_dir(S.host, T.relative_path, T.req.order)
                dots == <<[ino |-> T.req.ino, kind |-> "Directory", name |-> "."],
                          [ino |-> T.req.ino, kind |-> "Directory", name |-> ".."]>>
                T1 == [T EXCEPT !.parent_path = T.relative_path, !.names = r.names,
                                !.all_entries = dots]
            IN  IF ~r.ok THEN Res(S, Return(Send(T, ReplyError(ENOENT))))
                ELSE IF r.names = <<>> THEN Res(S, Return(Send(T1, ReplyDirectory(T1))))
                ELSE Res(S, [T1 EXCEPT !.relative_path =
                                           join(T.relative_path, to_string_lossy(Head(r.names))),
                                       !.pc = "goci", !.ret = "entry_metadata"])
      [] T.pc = "entry_metadata" ->
            LET md == symlink_metadata(S.host, join(T.parent_path, Head(T.names)))
                T1 == [T EXCEPT !.all_entries = Append(@, [ino |-> T.inode, kind |-> FileType(md),
                                                           name |-> to_string_lossy(Head(T.names))]),
                                !.names = Tail(@)]
            IN  IF T1.names = <<>> THEN Res(S, Return(Send(T1, ReplyDirectory(T1))))
                ELSE Res(S, [T1 EXCEPT !.relative_path =
                                           join(T.parent_path, to_string_lossy(Head(T1.names))),
                                       !.pc = "goci", !.ret = "entry_metadata"])
      [] OTHER -> get_or_create_inode(S, T, t)

Options(flags, create) ==
    [read |-> flags.acc \in {"O_RDONLY", "O_RDWR"},
     write |-> flags.acc \in {"O_WRONLY", "O_RDWR"},
     append |-> ~create /\ flags.append,
     create |-> create,
     truncate |-> create /\ flags.trunc]

ReplyOpened(fh) == [kind |-> "opened", fh |-> fh]

ReplyCreated(attr, fh) == [kind |-> "created", attr |-> attr, fh |-> fh]

ReplyWritten(n) == [kind |-> "written", size |-> n]

\* the lowest handle open_files does not hold
LowestFreeFh(S) == CHOOSE h \in 1..S.next_fh : ~Has(S.open_files, h) /\
                       \A g \in 1..(h - 1) : Has(S.open_files, g)

\* insert_file handing out the lowest free handle instead of the counter's value
insert_file_reuse(S, T, next) ==
    CASE T.pc = "fetch_fh" ->
            Res([S EXCEPT !.next_fh = IF LowestFreeFh(S) = @ THEN @ + 1 ELSE @],
                [T EXCEPT !.fh = LowestFreeFh(S), !.pc = "insert_fh"])
      [] T.pc = "insert_fh" ->
            IF Held(S, "open_files") THEN Block(S, T, "open_files")
            ELSE Res([S EXCEPT !.open_files = Insert(@, T.fh, T.file)], [T EXCEPT !.pc = next])

\* `let fh = self.next_fh.fetch_add(1, SeqCst); self.open_files.lock().unwrap().insert(fh, file);`
\* going on at pc next
insert_file(S, T, next) ==
    CASE T.pc = "fetch_fh" ->
            Res([S EXCEPT !.next_fh = @ + 1], [T EXCEPT !.fh = S.next_fh, !.pc = "insert_fh"])
      [] T.pc = "insert_fh" ->
            IF Held(S, "open_files") THEN Block(S, T, "open_files")
            ELSE Res([S EXCEPT !.open_files = Insert(@, T.fh, T.file)], [T EXCEPT !.pc = next])

open(S, T, t) ==
    CASE T.pc = "start" -> resolve_ino(S, T, "open")
      [] T.pc = "open" ->
            LET r == open_at(S.host, T.relative_path, Options(T.req.flags, FALSE)) IN
            IF r.ok THEN Res([S EXCEPT !.host = r.host], [T EXCEPT !.file = r.file, !.pc = "fetch_fh"])
            ELSE Res(S, Return(Send(T, ReplyError(ENOENT))))
      [] OTHER ->
            LET r == insert_file(S, T, "opened") IN
            IF r.T.pc = "opened" THEN Res(r.S, Return(Send(r.T, ReplyOpened(r.T.fh)))) ELSE r

\* create with the reply of the failed stat left out
create_silent(S, T, t) ==
    CASE T.pc = "start" -> resolve_parent(S, T, "open")
      [] T.pc = "open" ->
            LET r == open_at(S.host, T.relative_path, Options(T.req.flags, TRUE)) IN
            IF r.ok THEN Res([S EXCEPT !.host = r.host],
                             [T EXCEPT !.file = r.file, !.pc = "goci", !.ret = "fetch_fh"])
            ELSE Res(S, Return(Send(T, ReplyError(ENOENT))))
      [] T.pc \in {"goci", "goci_insert"} -> get_or_create_inode(S, T, t)
      [] T.pc \in {"fetch_fh", "insert_fh"} -> insert_file(S, T, "metadata")
      [] T.pc = "metadata" ->
            LET md == metadata(S.host, T.relative_path) IN
            IF md.ok
            THEN Res(S, Return(Send(T, ReplyCreated(metadata_to_attr(md, T.inode), T.fh))))
            ELSE Res(S, Return(T))

\* create that allocates and inserts the handle with inode_to_path locked
create_holding(S, T, t) ==
    CASE T.pc = "start" -> resolve_parent(S, T, "open")
      [] T.pc = "open" ->
            LET r == open_at(S.host, T.relative_path, Options(T.req.flags, TRUE)) IN
            IF r.ok THEN Res([S EXCEPT !.host = r.host],
                             [T EXCEPT !.file = r.file, !.pc = "goci", !.ret = "fetch_fh"])
            ELSE Res(S, Return(Send(T, ReplyError(ENOENT))))
      [] T.pc \in {"goci", "goci_insert"} -> get_or_create_inode(S, T, t)
      [] T.pc = "fetch_fh" ->
            IF Held(S, "inode_to_path") THEN Block(S, T, "inode_to_path")
            ELSE Res([S EXCEPT !.next_fh = @ + 1, !.mutex.inode_to_path = t],
                     [T EXCEPT !.fh = S.next_fh, !.pc = "insert_fh"])
      [] T.pc = "insert_fh" ->
            IF Held(S, "open_files") THEN Block(S, T, "open_files")
            ELSE Res([S EXCEPT !.open_files = Insert(@, T.fh, T.file), !.mutex.inode_to_path = 0],
                     [T EXCEPT !.pc = "metadata"])
      [] T.pc = "metadata" ->
            LET md == metadata(S.host, T.relative_path) IN
            IF md.ok
            THEN Res(S, Return(Send(T, ReplyCreated(metadata_to_attr(md, T.inode), T.fh))))
            ELSE Res(S, Return(Send(T, ReplyError(ENOENT))))

\* (fs::set_permissions after the open: result discarded, not part of the model)
\* a create that interns the child path before it asks the host to open it
create_intern_first(S, T, t) ==
    CASE T.pc = "start" -> resolve_parent(S, [T EXCEPT !.ret = "open"], "goci")
      [] T.pc \in {"goci", "goci_insert"} -> get_or_create_inode(S, T, t)
      [] T.pc = "open" ->
            LET r == open_at(S.host, T.relative_path, Options(T.req.flags, TRUE)) IN
            IF r.ok THEN Res([S EXCEPT !.host = r.host], [T EXCEPT !.file = r.file, !.pc = "fetch_fh"])
            ELSE Res(S, Return(Send(T, ReplyError(ENOENT))))
      [] T.pc \in {"fetch_fh", "insert_fh"} -> insert_file(S, T, "metadata")
      [] T.pc = "metadata" ->
            LET md == metadata(S.host, T.relative_path) IN
            IF md.ok
            THEN Res(S, Return(Send(T, ReplyCreated(metadata_to_attr(md, T.inode), T.fh))))
            ELSE Res(S, Return(Send(T, ReplyError(ENOENT))))

create(S, T, t) ==
    CASE T.pc = "start" -> resolve_parent(S, T, "open")
      [] T.pc = "open" ->
            LET r == open_at(S.host, T.relative_path, Options(T.req.flags, TRUE)) IN
            IF r.ok THEN Res([S EXCEPT !.host = r.host],
                             [T EXCEPT !.file = r.file, !.pc = "goci", !.ret = "fetch_fh"])
            ELSE Res(S, Return(Send(T, ReplyError(ENOENT))))
      [] T.pc \in {"goci", "goci_insert"} -> get_or_create_inode(S, T, t)
      [] T.pc \in {"fetch_fh", "insert_fh"} -> insert_file(S, T, "metadata")
      [] T.pc = "metadata" ->
            LET md == metadata(S.host, T.relative_path) IN
            IF md.ok
            THEN Res(S, Return(Send(T, ReplyCreated(metadata_to_attr(md, T.inode), T.fh))))
            ELSE Res(S, Return(Send(T, ReplyError(ENOENT))))

\* release that replies without removing the handle
release_keep(S, T, t) ==
    IF Held(S, "open_files") THEN Block(S, T, "open_files")
    ELSE Res(S, Return(Send(T, ReplyOk)))

release(S, T, t) ==
    IF Held(S, "open_files") THEN Block(S, T, "open_files")
    ELSE Res([S EXCEPT !.open_files = Remove(@, T.req.fh)], Return(Send(T, ReplyOk)))

\* `let mut open_files = self.open_files.lock().unwrap();` is held to the end of the
\* handler, over the seek, the read and the reply
read(S, T, t) ==
    CASE T.pc = "start" ->
            IF Held(S, "open_files") THEN Block(S, T, "open_files")
            ELSE IF Has(S.open_files, T.req.fh)
            THEN Res([S EXCEPT !.mutex.open_files = t], [T EXCEPT !.pc = "seek"])
            ELSE Res(S, Return(Send(T, ReplyError(ENOENT))))
      [] T.pc = "seek" ->
            LET r == seek_read(S.host, S.open_files[T.req.fh], T.req.offset, T.req.size)
                S1 == [S EXCEPT !.open_files[T.req.fh] = r.file, !.mutex.open_files = 0]
            IN  IF r.ok THEN Res(S1, Return(Send(T, ReplyData(r.data))))
                ELSE Res(S1, Return(Send(T, ReplyError(ENOENT))))

write(S, T, t) ==
    CASE T.pc = "start" ->
            IF Held(S, "open_files") THEN Block(S, T, "open_files")
            ELSE IF Has(S.open_files, T.req.fh)
            THEN Res([S EXCEPT !.mutex.open_files = t], [T EXCEPT !.pc = "seek"])
            ELSE Res(S, Return(Send(T, ReplyError(ENOENT))))
      [] T.pc = "seek" ->
            LET r == seek_write(S.host, S.open_files[T.req.fh], T.req.offset, T.req.data)
                S1 == [S EXCEPT !.open_files[T.req.fh] = r.file, !.mutex.open_files = 0,
                                !.host = r.host]
            IN  IF r.ok THEN Res(S1, Return(Send(T, ReplyWritten(r.written))))
                ELSE Res(S1, Return(Send(T, ReplyError(ENOENT))))

\* (File::sync_all: result discarded, durability is not part of the model)
flush(S, T, t) ==
    IF Held(S, "open_files") THEN Block(S, T, "open_files")
    ELSE Res(S, Return(Send(T, ReplyOk)))

fsync(S, T, t) ==
    IF Held(S, "open_files") THEN Block(S, T, "open_files")
    ELSE Res(S, Return(Send(T, ReplyOk)))

statfs(S, T, t) == Res(S, Return(Send(T, [kind |-> "statfs"])))

----------------------------------------------------------------------------
(* The session *)

\* the shared state, as the handlers see it
Shared ==
    [inode_to_path |-> inode_to_path, path_to_inode |-> path_to_inode,
     next_inode |-> next_inode, open_files |-> open_files, next_fh |-> next_fh,
     mutex |-> mutex, host |-> host]

\* the files some thread has opened and not yet put into open_files
InHand(threads) == {threads[t].file : t \in DOMAIN threads}

\* main before its first statement, given a source and a mountpoint that are a
\* directory, a file or missing, and a mountpoint fuser can or cannot mount on
Started(source, mountpoint, mountable) ==
    [pc |-> "check_source", source |-> source, mountpoint |-> mountpoint,
     mountable |-> mountable, session |-> "none", handler |-> FALSE, running |-> TRUE,
     umount |-> FALSE, code |-> -1, sigints |-> 0, interrupted |-> FALSE]

\* main in its loop `while running.load(..)`: the file system is mounted, the
\* background session serves, the Ctrl+C handler is set
Waiting ==
    [Started("dir", "dir", TRUE) EXCEPT !.pc = "wait", !.session = "open", !.handler = TRUE]

\* metadata_to_attr has not been called
NoCall == [md |-> Err, inode |-> 0, out |-> [panic |-> FALSE]]

Commit(S, threads) ==
    /\ inode_to_path' = S.inode_to_path
    /\ path_to_inode' = S.path_to_inode
    /\ next_inode' = S.next_inode
    /\ open_files' = S.open_files
    /\ next_fh' = S.next_fh
    /\ mutex' = S.mutex
    /\ host' = Collect(S.host, {S.open_files[h] : h \in DOMAIN S.open_files} \cup InHand(threads))
    /\ th' = threads
    /\ UNCHANGED <<proc, xlat>>

\* the content of the one file the source directory holds at mount time
SeedContent == <<1, 2>>

\* the source directory at mount time: the directory `a` holding the regular
\* file `a/a`, and `b`, a symbolic link to `a`
SeedHost ==
    [tree |-> [p \in Paths |->
                 CASE p = <<>> -> DirEntry
                   [] p = <<"a">> -> DirEntry
                   [] p = <<"a", "a">> -> [FileEntry(1) EXCEPT !.perm = 436, !.uid = 1]
                   [] p = <<"b">> -> LinkEntry("a")
                   [] OTHER -> NoEntry],
     files |-> (1 :> SeedContent)]


\* the dispatch of fuser: the handler the request's opcode selects
Handler(S, T, t) ==
    CASE T.req.op = "lookup" -> lookup(S, T, t)
      [] T.req.op = "getattr" -> getattr(S, T, t)
      [] T.req.op = "setattr" -> setattr(S, T, t)
      [] T.req.op = "read" -> read(S, T, t)
      [] T.req.op = "write" -> write(S, T, t)
      [] T.req.op = "readdir" -> readdir(S, T, t)
      [] T.req.op = "open" -> open(S, T, t)
      [] T.req.op = "release" -> release(S, T, t)
      [] T.req.op = "create" -> create(S, T, t)
      [] T.req.op = "mkdir" -> mkdir(S, T, t)
      [] T.req.op = "unlink" -> unlink(S, T, t)
      [] T.req.op = "rmdir" -> rmdir(S, T, t)
      [] T.req.op = "rename" -> rename(S, T, t)
      [] T.req.op = "statfs" -> statfs(S, T, t)
      [] T.req.op = "access" -> access(S, T, t)
      [] T.req.op = "readlink" -> readlink(S, T, t)
      [] T.req.op = "symlink" -> symlink(S, T, t)
      [] T.req.op = "flush" -> flush(S, T, t)
      [] T.req.op = "fsync" -> fsync(S, T, t)

\* the steps in which a handler calls the host file system (std::fs, File)
HostPcs ==
    {"metadata", "exists", "read_link", "create_dir", "symlink", "remove_file", "remove_dir",
     "rename", "set_len", "set_permissions", "chown", "read_dir", "entry_metadata", "open",
     "seek"}

\* one micro-step of thread t; hostcalls counts the calls to the host it has made
Counted(r, pc) ==
    IF ~r.blocked /\ pc \in HostPcs
    THEN [r EXCEPT !.T.hostcalls = @ + 1]
    ELSE r

Step(S, T, t) == Counted(Handler(S, T, t), T.pc)

\* a handler run from its current pc to its return (or to a mutex it cannot take)
RECURSIVE Run(_, _, _)
Continue(S, T, t, r) == IF r.blocked THEN [S |-> S, T |-> T] ELSE Run(r.S, r.T, t)

Run(S, T, t) == IF T.pc = "done" THEN [S |-> S, T |-> T] ELSE Continue(S, T, t, Step(S, T, t))

\* the counters stay within the ids the model provides
InBounds(S) == S.next_inode <= MaxInode + 1 /\ S.next_fh <= MaxFh + 1

\* Request r served from dispatch to return by the session thread, as fuser
\* does: the handlers take `&mut self`, so no two of them run at once.
Returned(out) ==
    /\ InBounds(out.S)
    /\ Commit(out.S, [th EXCEPT ![1] = out.T])

Serve(r) ==
    /\ th[1].pc = "idle"
    /\ served < MaxServed
    /\ served' = served + 1
    /\ Returned(Run(Shared, NewThread(r), 1))

(* The requests the kernel sends *)

\* the ids a request may carry: every id the session knows, and the lowest id not
\* yet handed out for the ids it does not know (get_path treats all of those alike)
NodeIds == DOMAIN inode_to_path \cup {next_inode}

Handles == 1..next_fh

Req(op, ino, name) == [NoReq EXCEPT !.op = op, !.ino = ino, !.name = name]

ReqFh(op, fh) == [NoReq EXCEPT !.op = op, !.fh = fh]

AccModes == {"O_RDONLY", "O_RDWR"}

Appends == {FALSE}

Truncs == {FALSE}

Offsets == {0}

Sizes == {1}

Datas == {<<3>>}

\* what setattr is asked for, as <<size, mode, uid, gid>> with -1 for None: one
\* byte; one byte, r--r--r-- with the bits of a regular file and a group of the
\* process; a user other than the process's with a group of the process
SetattrArgs == {<<1, -1, -1, -1>>, <<1, 33060, -1, 1>>, <<-1, -1, 1, 1>>}

DirOffsets == {0, 2}

Caps == {4}

Orders == {<<"a", "b">>, <<"b", "a">>}

Targets == {"a"}

LookupReqs == {Req("lookup", parent, name) : parent \in NodeIds, name \in Names}

GetattrReqs == {Req("getattr", ino, "") : ino \in NodeIds}

SetattrReqs ==
    {[Req("setattr", ino, "") EXCEPT !.newsize = x[1], !.mode = x[2], !.uid = x[3], !.gid = x[4]] :
        ino \in NodeIds, x \in SetattrArgs}

ReadReqs ==
    {[ReqFh("read", fh) EXCEPT !.offset = offset, !.size = size] :
        fh \in Handles, offset \in Offsets, size \in Sizes}

WriteReqs ==
    {[ReqFh("write", fh) EXCEPT !.offset = offset, !.data = data] :
        fh \in Handles, offset \in Offsets, data \in Datas}

\* besides the listings from DirOffsets with room for everything, two with room
\* for a single entry, from the first child on and from the second
ReaddirReqs ==
    {[Req("readdir", x[1], "") EXCEPT !.offset = x[2][1], !.cap = x[2][2], !.order = x[3]] :
        x \in NodeIds \X ((DirOffsets \X Caps) \cup {<<2, 1>>, <<3, 1>>}) \X Orders}

OpenReqs ==
    {[Req("open", ino, "") EXCEPT !.flags = [acc |-> acc, append |-> append, trunc |-> FALSE]] :
        ino \in NodeIds, acc \in AccModes, append \in Appends}

ReleaseReqs == {ReqFh("release", fh) : fh \in Handles}

CreateReqs ==
    {[Req("create", x[1], x[2]) EXCEPT !.flags = [acc |-> x[3], append |-> FALSE, trunc |-> x[4]]] :
        x \in NodeIds \X Names \X AccModes \X Truncs}

MkdirReqs == {Req("mkdir", parent, name) : parent \in NodeIds, name \in Names}

UnlinkReqs == {Req("unlink", parent, name) : parent \in NodeIds, name \in Names}

RmdirReqs == {Req("rmdir", parent, name) : parent \in NodeIds, name \in Names}

\* the kernel sends no rename of an entry onto itself, into a directory below
\* itself, or onto a directory it lies in: it answers those itself
Sendable(y) ==
    /\ <<y[1], y[2]>> # <<y[3], y[4]>>
    /\ (Has(inode_to_path, y[1]) /\ Has(inode_to_path, y[3])) =>
            /\ ~IsPrefix(join(inode_to_path[y[1]], y[2]), inode_to_path[y[3]])
            /\ ~IsPrefix(join(inode_to_path[y[3]], y[4]), inode_to_path[y[1]])

RenameReqs ==
    {[Req("rename", x[1], x[2]) EXCEPT !.newparent = x[3], !.newname = x[4]] :
        x \in {y \in NodeIds \X Names \X NodeIds \X Names : Sendable(y)}}

StatfsReqs == {[NoReq EXCEPT !.op = "statfs"]}

AccessReqs == {Req("access", ino, "") : ino \in NodeIds}

ReadlinkReqs == {Req("readlink", ino, "") : ino \in NodeIds}

SymlinkReqs ==
    {[Req("symlink", parent, name) EXCEPT !.target = target] :
        parent \in NodeIds, name \in Names, target \in Targets}

FlushReqs == {ReqFh("flush", fh) : fh \in Handles}

FsyncReqs == {ReqFh("fsync", fh) : fh \in Handles}

Requests ==
    LookupReqs \cup GetattrReqs \cup {r \in SetattrReqs : r.mode = -1 /\ r.uid = -1}
        \cup ReadReqs \cup WriteReqs \cup {r \in ReaddirReqs : r.offset = 0}
        \cup OpenReqs \cup ReleaseReqs \cup CreateReqs \cup MkdirReqs \cup UnlinkReqs
        \cup RmdirReqs \cup RenameReqs \cup StatfsReqs \cup AccessReqs \cup ReadlinkReqs
        \cup SymlinkReqs \cup FlushReqs \cup FsyncReqs

(* Spec: the session thread serves one request after the other *)

Lookup == \E r \in LookupReqs : Serve(r)

Getattr == \E r \in GetattrReqs : Serve(r)

Setattr == \E r \in SetattrReqs : Serve(r)

Read == \E r \in ReadReqs : Serve(r)

Write == \E r \in WriteReqs : Serve(r)

Readdir == \E r \in ReaddirReqs : Serve(r)

Open == \E r \in OpenReqs : Serve(r)

Release == \E r \in ReleaseReqs : Serve(r)

Create == \E r \in CreateReqs : Serve(r)

Mkdir == \E r \in MkdirReqs : Serve(r)

Unlink == \E r \in UnlinkReqs : Serve(r)

Rmdir == \E r \in RmdirReqs : Serve(r)

Rename == \E r \in RenameReqs : Serve(r)

Statfs == \E r \in StatfsReqs : Serve(r)

Access == \E r \in AccessReqs : Serve(r)

Readlink == \E r \in ReadlinkReqs : Serve(r)

Symlink == \E r \in SymlinkReqs : Serve(r)

Flush == \E r \in FlushReqs : Serve(r)

Fsync == \E r \in FsyncReqs : Serve(r)

\* the reply is out and the handler has returned: the thread takes the next request
Retire(t) ==
    /\ th[t].pc = "done"
    /\ ~th[t].panicked
    /\ th' = [th EXCEPT ![t] = Idle]
    /\ UNCHANGED <<inode_to_path, path_to_inode, next_inode, open_files, next_fh, mutex, host, served,
                   proc, xlat>>

Next ==
    \/ Retire(1)
    \/ Lookup
    \/ Getattr
    \/ Setattr
    \/ Read
    \/ Write
    \/ Readdir
    \/ Open
    \/ Release
    \/ Create
    \/ Mkdir
    \/ Unlink
    \/ Rmdir
    \/ Rename
    \/ Statfs
    \/ Access
    \/ Readlink
    \/ Symlink
    \/ Flush
    \/ Fsync

\* the tables and the source directory after request r has been served in state S
After(S, r) == Run(S, NewThread(r), 1).S

Fresh ==
    [inode_to_path |-> new.inode_to_path, path_to_inode |-> new.path_to_inode,
     next_inode |-> new.next_inode, open_files |-> new.open_files, next_fh |-> new.next_fh,
     mutex |-> [inode_to_path |-> 0, path_to_inode |-> 0, open_files |-> 0],
     host |-> SeedHost]

\* the states the requests start in: a fresh session, the session after
\* lookup(1, "a") and lookup(1, "b"), which knows `a` as 2 and `b` as 3, and the
\* session after lookup(1, "a"), lookup(2, "a") and two open(3, O_RDWR), which
\* holds the handles 1 and 2, both on `a/a`
ConcStarts ==
    LET rw == [acc |-> "O_RDWR", append |-> FALSE, trunc |-> FALSE] IN
    {Fresh,
     After(After(Fresh, Req("lookup", 1, "a")), Req("lookup", 1, "b")),
     After(After(After(After(Fresh, Req("lookup", 1, "a")), Req("lookup", 2, "a")),
                 [Req("open", 3, "") EXCEPT !.flags = rw]),
           [Req("open", 3, "") EXCEPT !.flags = rw])}

\* Spec starts in the fresh session and in the session that knows `a` and `b`
Init ==
    /\ \E S \in {X \in ConcStarts : InBounds(X)} :
        /\ inode_to_path = S.inode_to_path
        /\ path_to_inode = S.path_to_inode
        /\ next_inode = S.next_inode
        /\ open_files = S.open_files
        /\ next_fh = S.next_fh
        /\ mutex = S.mutex
        /\ host = S.host
    /\ th = [t \in Threads |-> Idle]
    /\ served = 0
    /\ proc = Waiting
    /\ xlat = NoCall

Spec == Init /\ [][Next]_vars

(* SpecConc: worker threads serve requests at the same time, each handler      *)
(* advancing by one micro-step at a time, as the design document schedules them *)

InitConc ==
    /\ \E S \in ConcStarts :
        /\ inode_to_path = S.inode_to_path
        /\ path_to_inode = S.path_to_inode
        /\ next_inode = S.next_inode
        /\ open_files = S.open_files
        /\ next_fh = S.next_fh
        /\ mutex = S.mutex
        /\ host = S.host
    /\ th = [t \in Threads |-> Idle]
    /\ served = 0
    /\ proc = Waiting
    /\ xlat = NoCall

\* fuser hands request r to worker thread t (the lowest idle one)
Dispatch(t) ==
    /\ th[t].pc = "idle"
    /\ \A u \in 1..(t - 1) : th[u].pc # "idle"
    /\ \A u \in Threads : ~th[u].panicked
    /\ served < MaxConcurrent
    /\ served' = served + 1
    /\ \E r \in Requests :
        th' = [th EXCEPT ![t] = [NewThread(r) EXCEPT
                    !.concurrent = \E u \in Threads : th[u].pc \notin {"idle", "done"},
                    !.first_free = next_inode]]
    /\ UNCHANGED <<inode_to_path, path_to_inode, next_inode, open_files, next_fh, mutex, host,
                   proc, xlat>>

Running(T) == T.pc \notin {"idle", "done"}

Stepped(r, t) ==
    /\ ~r.blocked
    /\ Commit(r.S, [th EXCEPT ![t] = r.T])

\* thread t takes the next micro-step of its handler
Advance(t) ==
    /\ Running(th[t])
    /\ Stepped(Step(Shared, th[t], t), t)
    /\ UNCHANGED served

NextConc == \E t \in Threads : Dispatch(t) \/ Advance(t) \/ Retire(t)

SpecConc == InitConc /\ [][NextConc]_vars

(* SpecFiles: the session thread serves the requests of the Handle Table    *)
(* (open, create, read, write, release), one after the other, on a session  *)
(* that has interned the file the source directory holds                     *)

\* requests served in one behaviour of SpecFiles
MaxOps == 4
\* handles a behaviour of SpecFiles may allocate are 1..MaxOpen
MaxOpen == 2

\* the states the session is in when the requests start: `a` and `a/a` interned
\* by lookup(1, "a") and lookup(2, "a") (ids 2 and 3), then either nothing more,
\* or open(3, O_RDWR) twice (handles 1 and 2, both on `a/a`), or
\* create(2, "b", O_RDWR) (`a/b` with id 4 and handle 1)
FileStarts ==
    LET rw == [acc |-> "O_RDWR", append |-> FALSE, trunc |-> FALSE]
        interned == After(After(Fresh, Req("lookup", 1, "a")), Req("lookup", 2, "a"))
    IN  {interned,
         After(After(interned, [Req("open", 3, "") EXCEPT !.flags = rw]),
               [Req("open", 3, "") EXCEPT !.flags = rw]),
         After(interned, [Req("create", 2, "b") EXCEPT !.flags = rw])}

InitFiles ==
    /\ \E S \in FileStarts :
        /\ inode_to_path = S.inode_to_path
        /\ path_to_inode = S.path_to_inode
        /\ next_inode = S.next_inode
        /\ open_files = S.open_files
        /\ next_fh = S.next_fh
        /\ mutex = S.mutex
        /\ host = S.host
    /\ th = [t \in Threads |-> Idle]
    /\ served = 0
    /\ proc = Waiting
    /\ xlat = NoCall

\* the kernel sends open for what it takes for a regular file (directories get
\* opendir, which the program leaves to fuser's default)
FileOpenReqs ==
    {[Req("open", x[1], "") EXCEPT !.flags = [acc |-> x[2], append |-> x[3], trunc |-> FALSE]] :
        x \in {y \in NodeIds \X {"O_RDONLY", "O_WRONLY", "O_RDWR"} \X BOOLEAN :
                  Has(inode_to_path, y[1]) =>
                      (metadata(host, inode_to_path[y[1]]).ok =>
                          metadata(host, inode_to_path[y[1]]).kind = "file")}}

FileCreateReqs ==
    {[Req("create", x[1], x[2]) EXCEPT !.flags = [acc |-> x[3], append |-> FALSE, trunc |-> x[4]]] :
        x \in NodeIds \X Names \X {"O_RDONLY", "O_WRONLY", "O_RDWR"} \X BOOLEAN}

\* the kernel sends a read only for a file description open for reading
FileReadReqs ==
    {[ReqFh("read", x[1]) EXCEPT !.offset = x[2], !.size = x[3]] :
        x \in {y \in Handles \X {0, 1, 2} \X {1, 2} :
                  Has(open_files, y[1]) => open_files[y[1]].read}}

\* the kernel sends a write only for a file description open for writing; for
\* one open with O_APPEND it sends the offset of the end of the file as it knows
\* it, which is the end on the host or, when the file has grown behind its back,
\* an offset before it
FileWriteReqs ==
    {[ReqFh("write", x[1]) EXCEPT !.offset = x[2], !.data = x[3]] :
        x \in {y \in Handles \X {0, 1, 2} \X {<<3>>, <<3, 4>>} :
                  Has(open_files, y[1]) =>
                      /\ open_files[y[1]].write
                      /\ open_files[y[1]].append =>
                            y[2] <= Len(host.files[open_files[y[1]].hino])}}

Opened(out) ==
    /\ out.S.next_fh <= MaxOpen + 1
    /\ Commit(out.S, [th EXCEPT ![1] = out.T])

ServeFile(r) ==
    /\ th[1].pc = "idle"
    /\ served < MaxOps
    /\ served' = served + 1
    /\ Opened(Run(Shared, NewThread(r), 1))

NextFiles ==
    \/ Retire(1)
    \/ \E r \in FileOpenReqs : ServeFile(r)
    \/ \E r \in FileCreateReqs : ServeFile(r)
    \/ \E r \in FileReadReqs : ServeFile(r)
    \/ \E r \in FileWriteReqs : ServeFile(r)
    \/ \E r \in ReleaseReqs : ServeFile(r)

SpecFiles == InitFiles /\ [][NextFiles]_vars

----------------------------------------------------------------------------
(* The claims *)

\* every binding of path_to_inode is confirmed by inode_to_path
ForwardConfirmed ==
    \A p \in DOMAIN path_to_inode :
        Has(inode_to_path, path_to_inode[p]) /\ inode_to_path[path_to_inode[p]] = p

\* every binding of inode_to_path is confirmed by path_to_inode
BackwardConfirmed ==
    \A i \in DOMAIN inode_to_path :
        Has(path_to_inode, inode_to_path[i]) /\ path_to_inode[inode_to_path[i]] = i

\* C1: after any sequence of requests the id-to-path map and the path-to-id map
\* are exact inverses of each other: a pair is in one map iff it is in the other,
\* and no two distinct ids resolve to the same path.
C1_ExactInverses == ForwardConfirmed /\ BackwardConfirmed


\* thread t is between the two map updates of a rename
Updating(t) == th[t].req.op = "rename" /\ th[t].pc = "update_inode"

\* C2: no request running at the same time as a rename observes a half-updated
\* mapping.  Whenever path_to_inode can be read (its mutex is free) each of its
\* bindings is confirmed by inode_to_path; between its two map updates the rename
\* holds that mutex, and the id still resolves, to the old path; the step that
\* ends the rename leaves the id bound to the new path in both maps and to the
\* old path in neither.
C2_RenameAtomic ==
    /\ [](mutex.path_to_inode = 0 => ForwardConfirmed)
    /\ [](\A t \in Threads : Updating(t) =>
            /\ mutex.path_to_inode = t
            /\ Has(inode_to_path, th[t].inode)
            /\ inode_to_path[th[t].inode] = th[t].relative_path)
    /\ [][\A t \in Threads : (Updating(t) /\ th'[t].pc = "done") =>
            /\ mutex'.path_to_inode = 0
            /\ inode_to_path'[th[t].inode] = th[t].new_relative
            /\ path_to_inode'[th[t].new_relative] = th[t].inode
            /\ (th[t].relative_path # th[t].new_relative =>
                    ~Has(path_to_inode', th[t].relative_path))]_vars

\* a rename of an interned path is between its two map updates while another
\* thread has resolved the id (to the old path) and not yet replied
C2_Witness ==
    \E t, u \in Threads :
        /\ t # u
        /\ Updating(t)
        /\ th[t].relative_path # th[t].new_relative
        /\ th[u].req.op = "getattr"
        /\ th[u].pc = "metadata"
        /\ th[u].req.ino = th[t].inode
        /\ th[u].relative_path = th[t].relative_path

\* the mutex the next step of thread t has to take ("": none)
Needs(t) ==
    IF Running(th[t])
    THEN Step([Shared EXCEPT !.mutex = [m \in DOMAIN mutex |->
                                          IF mutex[m] = t THEN t ELSE NThreads + 1]],
              th[t], t).on
    ELSE ""

\* the mutex thread t is waiting for ("": it can take its next step)
Waits(t) == IF Running(th[t]) THEN Step(Shared, th[t], t).on ELSE ""

\* C3: no set of threads deadlocks on the table locks.  No thread takes
\* path_to_inode while it holds inode_to_path, and every thread that waits for a
\* mutex waits for one whose holder is another thread that can take its next step.
C3_NoDeadlock ==
    /\ \A t \in Threads : mutex.inode_to_path = t => Needs(t) # "path_to_inode"
    /\ \A t \in Threads : Waits(t) # "" =>
            /\ mutex[Waits(t)] \in Threads \ {t}
            /\ Running(th[mutex[Waits(t)]])
            /\ Waits(mutex[Waits(t)]) = ""

\* one thread waits for path_to_inode while its holder is about to lock
\* inode_to_path
C3_Witness ==
    \E t, u \in Threads :
        /\ Waits(t) = "path_to_inode"
        /\ mutex.path_to_inode = u
        /\ Needs(u) = "inode_to_path"
        /\ th[u].req.op \in {"unlink", "rmdir"}

\* C4: every dispatched request sends exactly one reply on every control path: a
\* handler has never sent more than one, and has sent one when it returns.
C4_ExactlyOneReply ==
    \A t \in Threads :
        /\ th[t].nreply <= 1
        /\ th[t].pc = "done" => th[t].nreply = 1

\* a create, mkdir or symlink has returned after its second host call, the stat
\* of the entry it made, failed
C4_Witness ==
    \E t \in Threads :
        /\ th[t].pc = "done"
        /\ th[t].req.op \in {"create", "mkdir", "symlink"}
        /\ th[t].hostcalls = 2
        /\ th[t].reply = ReplyError(ENOENT)


----------------------------------------------------------------------------
(* Claims about one request served from dispatch to return *)

\* the step serves a request: afterwards th[1] holds the request and its reply
Served == th[1].pc = "idle" /\ th'[1].pc = "done"

\* the path a served request names by its parent id and name, in the state before
NamedPath == join(inode_to_path[th'[1].req.ino], th'[1].req.name)

\* the path a served rename names as its destination, in the state before
NamedNewPath == join(inode_to_path[th'[1].req.newparent], th'[1].req.newname)

\* C5: get_or_create_inode returns the id the path already has, allocating none,
\* or, for a path that has none, the counter's value, allocating it; either way
\* the id then resolves to the path and the path maps to the id.  A path's id
\* changes only in an unlink or rmdir of it or a rename from or onto it, so
\* repeated calls without one of these return the same id.
C5_InternIdempotent ==
    /\ [][(/\ Served
           /\ th'[1].req.op \in {"lookup", "mkdir", "symlink", "create"}
           /\ th'[1].reply.kind \in {"entry", "created"}) =>
            /\ IF Has(path_to_inode, NamedPath)
               THEN th'[1].reply.attr.ino = path_to_inode[NamedPath] /\ next_inode' = next_inode
               ELSE th'[1].reply.attr.ino = next_inode /\ next_inode' = next_inode + 1
            /\ Has(path_to_inode', NamedPath)
            /\ path_to_inode'[NamedPath] = th'[1].reply.attr.ino
            /\ Has(inode_to_path', th'[1].reply.attr.ino)
            /\ inode_to_path'[th'[1].reply.attr.ino] = NamedPath]_vars
    /\ [][(Served /\ th'[1].req.op = "readdir" /\ th'[1].reply.kind = "directory") =>
            \A k \in DOMAIN th'[1].reply.entries :
                LET e == th'[1].reply.entries[k]
                    q == join(inode_to_path[th'[1].req.ino], e.name)
                IN  e.name \in Names =>
                        /\ Has(path_to_inode', q) /\ path_to_inode'[q] = e.ino
                        /\ Has(inode_to_path', e.ino) /\ inode_to_path'[e.ino] = q
                        /\ Has(path_to_inode, q) => e.ino = path_to_inode[q]]_vars
    /\ [][\A q \in DOMAIN path_to_inode :
            \/ Has(path_to_inode', q) /\ path_to_inode'[q] = path_to_inode[q]
            \/ /\ Served
               /\ th'[1].reply = ReplyOk
               /\ \/ th'[1].req.op \in {"unlink", "rmdir"} /\ q = NamedPath
                  \/ th'[1].req.op = "rename" /\ q \in {NamedPath, NamedNewPath}]_vars

\* a lookup has returned an id that an earlier request allocated
C5_Witness ==
    /\ th[1].pc = "done"
    /\ th[1].req.op = "lookup"
    /\ th[1].reply.kind = "entry"
    /\ th[1].reply.attr.ino + 1 < next_inode

\* the ids either map holds
Ids == DOMAIN inode_to_path \cup {path_to_inode[q] : q \in DOMAIN path_to_inode}

\* C6: ids are handed out from 2 upwards by a counter that never goes back and
\* is above every id in either map; an id that enters a map is one the counter
\* passes in that step, so an id that has left the maps never returns.
C6_NeverReused ==
    /\ new.next_inode = 2
    /\ [](\A i \in Ids : 1 <= i /\ i < next_inode)
    /\ [][/\ next_inode' >= next_inode
          /\ \A i \in Ids' \ Ids : next_inode <= i /\ i < next_inode']_vars

\* a mkdir or create has been given a fresh id while an older id is in neither
\* map any more
C6_Witness ==
    /\ th[1].pc = "done"
    /\ th[1].req.op \in {"mkdir", "create"}
    /\ th[1].reply.kind \in {"entry", "created"}
    /\ th[1].reply.attr.ino = next_inode - 1
    /\ \E j \in 2..(next_inode - 2) : j \notin Ids

\* C7: id 1 resolves to the empty path and the empty path maps to id 1, in every
\* reachable state.
C7_RootFixed ==
    /\ Has(inode_to_path, 1) /\ inode_to_path[1] = <<>>
    /\ Has(path_to_inode, <<>>) /\ path_to_inode[<<>>] = 1

\* an unlink, rmdir or rename of an entry of the root has succeeded
C7_Witness ==
    /\ th[1].pc = "done"
    /\ th[1].req.op \in {"unlink", "rmdir", "rename"}
    /\ th[1].req.ino = 1
    /\ th[1].reply = ReplyOk
    /\ next_inode > 2

\* the callbacks that resolve a NodeId
IdOps ==
    {"lookup", "getattr", "setattr", "readdir", "open", "create", "mkdir", "unlink",
     "rmdir", "rename", "readlink", "symlink", "access"}

\* C10: a callback that resolves a NodeId, given one inode_to_path does not hold
\* (for rename: as either parent), replies ENOENT, calls nothing of the host and
\* leaves the maps, the counters and the handle table as they are.
C10_UnknownId ==
    [][(/\ Served
        /\ th'[1].req.op \in IdOps
        /\ \/ ~Has(inode_to_path, th'[1].req.ino)
           \/ th'[1].req.op = "rename" /\ ~Has(inode_to_path, th'[1].req.newparent)) =>
         /\ th'[1].reply = ReplyError(ENOENT)
         /\ th'[1].nreply = 1
         /\ th'[1].hostcalls = 0
         /\ host' = host
         /\ inode_to_path' = inode_to_path
         /\ path_to_inode' = path_to_inode
         /\ next_inode' = next_inode
         /\ open_files' = open_files
         /\ next_fh' = next_fh]_vars

\* a rename with a known parent and an unknown new parent has been refused
C10_Witness ==
    /\ th[1].pc = "done"
    /\ th[1].req.op = "rename"
    /\ Has(inode_to_path, th[1].req.ino)
    /\ ~Has(inode_to_path, th[1].req.newparent)
    /\ th[1].reply = ReplyError(ENOENT)


\* C9: a successful unlink or rmdir of path p takes p's binding out of
\* path_to_inode and the id p was bound to out of inode_to_path, and leaves every
\* other binding of both maps, those of paths below p included, and next_inode
\* as they are.
C9_ForgetExact ==
    [][(/\ Served
        /\ th'[1].req.op \in {"unlink", "rmdir"}
        /\ th'[1].reply = ReplyOk) =>
         /\ path_to_inode' = Remove(path_to_inode, NamedPath)
         /\ inode_to_path' = IF Has(path_to_inode, NamedPath)
                             THEN Remove(inode_to_path, path_to_inode[NamedPath])
                             ELSE inode_to_path
         /\ next_inode' = next_inode]_vars

\* an unlink or rmdir has succeeded, some id has been forgotten, and a path
\* below the removed one is still interned
C9_Witness ==
    /\ th[1].pc = "done"
    /\ th[1].req.op \in {"unlink", "rmdir"}
    /\ th[1].reply = ReplyOk
    /\ Has(inode_to_path, th[1].req.ino)
    /\ \E j \in 2..(next_inode - 1) : j \notin Ids
    /\ LET p == join(inode_to_path[th[1].req.ino], th[1].req.name) IN
       /\ ~Has(path_to_inode, p)
       /\ \E q \in DOMAIN path_to_inode : q # p /\ IsPrefix(p, q)

\* the shared state after the step
SharedAfter ==
    [inode_to_path |-> inode_to_path', path_to_inode |-> path_to_inode',
     next_inode |-> next_inode', open_files |-> open_files', next_fh |-> next_fh',
     mutex |-> mutex', host |-> host']

\* the reply to a lookup(parent, name) sent next
LookupAfter(parent, name) == Run(SharedAfter, NewThread(Req("lookup", parent, name)), 1).T.reply

\* the names a readdir(ino) sent next lists, "." and ".." left out
ListedAfter(ino) ==
    LET r == Run(SharedAfter,
                 NewThread([Req("readdir", ino, "") EXCEPT !.cap = 4, !.order = <<"a", "b">>]),
                 1).T.reply
    IN  IF r.kind = "directory"
        THEN {r.entries[k].name : k \in DOMAIN r.entries} \ {".", ".."}
        ELSE {}

\* the bytes a read of path p gets: those of the file p leads to
Content(h, p) ==
    LET c == Real(h, p, TRUE) IN
    IF c.ok /\ EntryAt(h, c.path).kind = "file"
    THEN [some |-> TRUE, bytes |-> h.files[EntryAt(h, c.path).hino]]
    ELSE [some |-> FALSE, bytes |-> <<>>]

\* the step is a successful rename of a path that has an id
Renamed ==
    /\ Served
    /\ th'[1].req.op = "rename"
    /\ th'[1].reply = ReplyOk
    /\ Has(path_to_inode, NamedPath)

Distinct == Real(host, NamedPath, FALSE).path # Real(host, NamedNewPath, FALSE).path

----------------------------------------------------------------------------
(* Claims about the Handle Table *)

\* the step serves an open or a create that hands out a handle
HandedOut == Served /\ th'[1].reply.kind \in {"opened", "created"}

\* C11: every successful open or create returns a handle no earlier one returned,
\* released or not.  The handle returned is the value of next_fh, which the step
\* passes, which never goes back and which is above every handle of open_files;
\* the handle is new to open_files, is bound there to the file description this
\* request opened, and the bindings of the other handles stay as they are.
C11_FreshHandle ==
    /\ [](\A h \in DOMAIN open_files : 1 <= h /\ h < next_fh)
    /\ [][next_fh' >= next_fh]_vars
    /\ [][HandedOut =>
            /\ th'[1].reply.fh = next_fh
            /\ next_fh' = next_fh + 1
            /\ ~Has(open_files, th'[1].reply.fh)
            /\ DOMAIN open_files' = DOMAIN open_files \cup {th'[1].reply.fh}
            /\ open_files'[th'[1].reply.fh].pos = 0
            /\ \A h \in DOMAIN open_files : open_files'[h] = open_files[h]]_vars

\* an open has returned a second handle on a file an earlier handle is open on,
\* after a read or write has moved the earlier one's position
C11_Witness ==
    /\ th[1].pc = "done"
    /\ th[1].reply.kind = "opened"
    /\ \E h \in DOMAIN open_files :
        /\ h < th[1].reply.fh
        /\ open_files[h].hino = open_files[th[1].reply.fh].hino
        /\ open_files[h].pos > 0

\* C12: once release(h) has returned, h is not in open_files, no later request
\* puts it back (a handle below next_fh that open_files does not hold stays out),
\* and a read or write on a handle open_files does not hold replies ENOENT and
\* touches neither the files nor the table.
C12_ReleasedStaysUnknown ==
    /\ [][(Served /\ th'[1].req.op = "release") =>
            /\ th'[1].reply = ReplyOk
            /\ ~Has(open_files', th'[1].req.fh)]_vars
    /\ [][\A h \in 1..(next_fh - 1) : ~Has(open_files, h) => ~Has(open_files', h)]_vars
    /\ [][(Served /\ th'[1].req.op \in {"read", "write"} /\ ~Has(open_files, th'[1].req.fh)) =>
            /\ th'[1].reply = ReplyError(ENOENT)
            /\ host' = host
            /\ open_files' = open_files]_vars

\* a read or write on a released handle has been refused while a handle handed
\* out after it is open
C12_Witness ==
    /\ th[1].pc = "done"
    /\ th[1].req.op \in {"read", "write"}
    /\ th[1].req.fh < next_fh - 1
    /\ ~Has(open_files, th[1].req.fh)
    /\ Has(open_files, next_fh - 1)
    /\ th[1].reply = ReplyError(ENOENT)

\* thread t serves a read or a write on a handle open_files holds
Transfers(t) == th[t].req.op \in {"read", "write"} /\ Has(open_files, th[t].req.fh)

\* C13: requests on different handles proceed independently: a read or write
\* that waits for the mutex of open_files never waits for a read or write on
\* another handle to finish its host I/O.
C13_HandlesIndependent ==
    \A t, u \in Threads :
        (/\ Transfers(t)
         /\ Transfers(u)
         /\ Waits(t) = "open_files"
         /\ mutex.open_files = u) => th[t].req.fh = th[u].req.fh

\* thread t holds a mutex of the Identity Table
HoldsIdentity(t) == mutex.inode_to_path = t \/ mutex.path_to_inode = t

\* C14: no request holds a mutex of the Identity Table (path_to_inode,
\* inode_to_path) while it takes or holds the mutex of open_files, nor the mutex
\* of open_files while it takes or holds one of the Identity Table; a create
\* holds none of the Identity Table when it inserts its handle.
C14_LockDomainsApart ==
    \A t \in Threads :
        /\ HoldsIdentity(t) => (mutex.open_files # t /\ Needs(t) # "open_files")
        /\ mutex.open_files = t =>
                (~HoldsIdentity(t) /\ Needs(t) \notin {"inode_to_path", "path_to_inode"})
        /\ (th[t].req.op = "create" /\ th[t].pc = "insert_fh") => ~HoldsIdentity(t)

\* a create that has interned a new path is about to insert its handle and waits
\* for the mutex of open_files, which a read or write holds
C14_Witness ==
    \E t, u \in Threads :
        /\ th[t].req.op = "create"
        /\ th[t].pc = "insert_fh"
        /\ th[t].inode = next_inode - 1
        /\ Has(inode_to_path, th[t].inode)
        /\ Waits(t) = "open_files"
        /\ mutex.open_files = u
        /\ Transfers(u)

\* the bytes of the file handle h is open on
Bytes(h) == host.files[open_files[h].hino]

\* the step serves a read or write on a handle open_files holds
Transferred == Served /\ th'[1].req.op \in {"read", "write"} /\ Has(open_files, th'[1].req.fh)

\* C15: read(h, offset, size) on a known handle replies with the bytes of the
\* file from offset on: never more than size, fewer only if the file ends before
\* offset + size, none (and no error) at or beyond the end of the file; the file
\* is left as it is.
C15_ReadExact ==
    [][(Transferred /\ th'[1].req.op = "read") =>
        LET offset == th'[1].req.offset
            size == th'[1].req.size
            data == th'[1].reply.data
        IN  /\ th'[1].reply.kind = "data"
            /\ Len(data) <= size
            /\ \A k \in 1..Len(data) : data[k] = Bytes(th'[1].req.fh)[offset + k]
            /\ Len(data) < size => Len(Bytes(th'[1].req.fh)) = offset + Len(data)
                                    \/ (Len(Bytes(th'[1].req.fh)) < offset /\ data = <<>>)
            /\ offset >= Len(Bytes(th'[1].req.fh)) => data = <<>>
            /\ host' = host]_vars

\* a read from inside the file has returned fewer bytes than it asked for, the
\* last ones of the file
C15_Witness ==
    /\ th[1].pc = "done"
    /\ th[1].req.op = "read"
    /\ th[1].reply.kind = "data"
    /\ th[1].req.offset > 0
    /\ th[1].reply.data # <<>>
    /\ Len(th[1].reply.data) < th[1].req.size
    /\ Has(open_files, th[1].req.fh)
    /\ Len(Bytes(th[1].req.fh)) = th[1].req.offset + Len(th[1].reply.data)

\* the shared state with every file description of open_files at position 0, as
\* open left it
Rewound ==
    [Shared EXCEPT !.open_files = [h \in DOMAIN open_files |-> [open_files[h] EXCEPT !.pos = 0]]]

\* C16: the reply to a read or write and the content of the files after it are
\* those the same request gets with every file description, the request's own
\* and those of the other handles, back at the position open left it at: what an
\* earlier read or write left behind on any handle has no part in it.
C16_PositionsIrrelevant ==
    [][Transferred =>
        /\ th'[1].reply = Run(Rewound, NewThread(th'[1].req), 1).T.reply
        /\ host'.files = Run(Rewound, NewThread(th'[1].req), 1).S.host.files]_vars

\* a read or write on one handle has succeeded at an offset its own earlier
\* transfer did not end at, while another handle on the same file stands at a
\* position beyond the transfer
C16_Witness ==
    /\ th[1].pc = "done"
    /\ th[1].req.op \in {"read", "write"}
    /\ th[1].reply.kind \in {"data", "written"}
    /\ Has(open_files, th[1].req.fh)
    /\ open_files[th[1].req.fh].pos > th[1].req.offset
    /\ \E h \in DOMAIN open_files :
        /\ h # th[1].req.fh
        /\ open_files[h].hino = open_files[th[1].req.fh].hino
        /\ open_files[h].pos > open_files[th[1].req.fh].pos

\* the thread after request r has been served in state S
ServedIn(S, r) == Run(S, NewThread(r), 1)

\* the scenario of C17 played from state S: create(parent, name) with access
\* mode acc, write(data) at offset 0, release, open of the new id for reading,
\* read of Len(data) bytes at offset 0.  created: the create succeeded; ran: so
\* did the write, the release and the open; read: the reply to the read; bytes:
\* the content of the file under the source directory at the end.
Scenario(S, parent, name, acc, data) ==
    LET c == ServedIn(S, [Req("create", parent, name) EXCEPT
                              !.flags = [acc |-> acc, append |-> FALSE, trunc |-> FALSE]])
        w == ServedIn(c.S, [ReqFh("write", c.T.reply.fh) EXCEPT !.offset = 0, !.data = data])
        x == ServedIn(w.S, ReqFh("release", c.T.reply.fh))
        o == ServedIn(x.S, Req("open", c.T.reply.attr.ino, ""))
        r == ServedIn(o.S, [ReqFh("read", o.T.reply.fh) EXCEPT !.offset = 0, !.size = Len(data)])
    IN  IF c.T.reply.kind # "created"
        THEN [created |-> FALSE, ran |-> FALSE, read |-> NoReply, bytes |-> <<>>]
        ELSE [created |-> TRUE,
              ran |-> /\ w.T.reply.kind = "written"
                      /\ x.T.reply = ReplyOk
                      /\ o.T.reply.kind = "opened",
              read |-> r.T.reply,
              bytes |-> Content(r.S.host, join(S.inode_to_path[parent], name)).bytes]

C18_WriteAll ==
    [][(Transferred /\ th'[1].req.op = "write" /\ th'[1].reply.kind = "written") =>
        /\ th'[1].reply.size = Len(th'[1].req.data)
        /\ Len(host'.files[open_files[th'[1].req.fh].hino])
                >= th'[1].req.offset + Len(th'[1].req.data)
        /\ \A k \in 1..Len(th'[1].req.data) :
                host'.files[open_files[th'[1].req.fh].hino][th'[1].req.offset + k]
                    = th'[1].req.data[k]]_vars

----------------------------------------------------------------------------
(* Claims about directories *)

\* the step serves request op on an entry the source directory holds, named by a
\* known parent id and a name
ServedOnEntry(op) ==
    /\ Served
    /\ th'[1].req.op = op
    /\ Has(inode_to_path, th'[1].req.ino)
    /\ symlink_metadata(host, NamedPath).ok

\* the Identity Table is after the step as it was before
TableUnchanged ==
    /\ inode_to_path' = inode_to_path
    /\ path_to_inode' = path_to_inode
    /\ next_inode' = next_inode

\* C19: mkdir of a name the parent directory already holds (a directory, a file
\* or a symbolic link) replies EEXIST and leaves the source directory and the
\* Identity Table as they are.
C19_MkdirExists ==
    [][ServedOnEntry("mkdir") =>
        /\ th'[1].reply = ReplyError(EEXIST)
        /\ host' = host
        /\ TableUnchanged]_vars

\* mkdir has made `a/b`; the same mkdir again has been refused
C19_Witness ==
    /\ th[1].pc = "done"
    /\ th[1].req.op = "mkdir"
    /\ th[1].req.name = "b"
    /\ Has(inode_to_path, th[1].req.ino)
    /\ inode_to_path[th[1].req.ino] = <<"a">>
    /\ EntryAt(host, <<"a", "b">>).kind = "dir"
    /\ Has(path_to_inode, <<"a", "b">>)
    /\ th[1].reply = ReplyError(EEXIST)

\* the entries of the directory the served request names, in the state before
NamedChildren == Children(host, Real(host, NamedPath, FALSE).path)

\* C20: rmdir of a directory that holds an entry replies an error and leaves the
\* source directory and the Identity Table as they are; rmdir of a directory
\* that holds none succeeds, removes it, takes its path out of path_to_inode
\* and the id the path had out of inode_to_path.
C20_RmdirNonEmpty ==
    [][(ServedOnEntry("rmdir") /\ symlink_metadata(host, NamedPath).kind = "dir") =>
        IF NamedChildren # {}
        THEN /\ th'[1].reply.kind = "error"
             /\ host' = host
             /\ TableUnchanged
        ELSE /\ th'[1].reply = ReplyOk
             /\ ~symlink_metadata(host', NamedPath).ok
             /\ ~Has(path_to_inode', NamedPath)
             /\ Has(path_to_inode, NamedPath) =>
                    ~Has(inode_to_path', path_to_inode[NamedPath])]_vars

\* the directory `a`, which held the file `a/a` at mount time, has been removed
\* by rmdir after the file was unlinked
C20_Witness ==
    /\ th[1].pc = "done"
    /\ th[1].req.op = "rmdir"
    /\ th[1].req.ino = 1
    /\ th[1].req.name = "a"
    /\ th[1].reply = ReplyOk
    /\ EntryAt(host, <<"a">>).kind = "none"
    /\ DOMAIN host.files = {}
    /\ ~Has(path_to_inode, <<"a">>)

----------------------------------------------------------------------------
(* Claims about listings and failed host calls *)

\* the entries successive readdir(ino) replies carry, the first call at `offset`
\* and each next one at the position replied with the last entry of the one
\* before, until a reply is empty or not a listing; the host enumerates in
\* `order` and the reply buffer holds `cap` entries
RECURSIVE Pages(_, _, _, _, _, _)
Pages(S, ino, cap, order, offset, fuel) ==
    LET out == ServedIn(S, [Req("readdir", ino, "") EXCEPT
                                !.offset = offset, !.cap = cap, !.order = order])
        e == out.T.reply.entries
    IN  IF fuel = 0 \/ out.T.reply.kind # "directory" THEN <<>>
        ELSE IF e = <<>> THEN <<>>
        ELSE e \o Pages(out.S, ino, cap, order, e[Len(e)].offset, fuel - 1)

StaleIds == {i \in DOMAIN inode_to_path : ~metadata(host, inode_to_path[i]).ok}

\* what getattr(i), served in this state, replies and leaves behind
GetattrNow(i) == ServedIn(Shared, Req("getattr", i, ""))

\* getattr(i), served in this state, replies ENOENT and leaves the Identity Table
\* as it is
GetattrRefusedNow(i) ==
    /\ GetattrNow(i).T.reply = ReplyError(ENOENT)
    /\ GetattrNow(i).S.inode_to_path = inode_to_path
    /\ GetattrNow(i).S.path_to_inode = path_to_inode
    /\ GetattrNow(i).S.next_inode = next_inode

\* C22: a lookup with a known parent of a child the host's stat fails on, and a
\* getattr of a known id whose path the host's stat fails on, reply ENOENT and
\* leave both maps and next_inode as they are (the child path is not interned,
\* the stale id stays bound to the path it had); this holds for the requests
\* served and, in every state reached, for the getattr of every stale id were
\* it served next.
C22_StatFails ==
    /\ [][(/\ Served
           /\ th'[1].req.op = "lookup"
           /\ Has(inode_to_path, th'[1].req.ino)
           /\ ~metadata(host, NamedPath).ok) =>
            /\ th'[1].reply = ReplyError(ENOENT)
            /\ TableUnchanged]_vars
    /\ [][(/\ Served
           /\ th'[1].req.op = "getattr"
           /\ th'[1].req.ino \in StaleIds) =>
            /\ th'[1].reply = ReplyError(ENOENT)
            /\ TableUnchanged]_vars
    /\ [](\A i \in StaleIds : GetattrRefusedNow(i))

\* unlink of the link `b` has left the id 3, interned for `b/a`, bound to a path
\* the host's stat fails on; getattr(3) replies ENOENT and leaves 3 bound to it
C22_Witness ==
    /\ th[1].pc = "done"
    /\ th[1].req.op = "unlink"
    /\ th[1].reply = ReplyOk
    /\ 3 \in StaleIds
    /\ inode_to_path[3] = <<"b", "a">>
    /\ ~symlink_metadata(host, <<"b">>).ok
    /\ GetattrRefusedNow(3)

\* the step serves request op with every parent id it names known
ServedKnown(op) ==
    /\ Served
    /\ th'[1].req.op = op
    /\ Has(inode_to_path, th'[1].req.ino)
    /\ op = "rename" => Has(inode_to_path, th'[1].req.newparent)

\* the host call of the served unlink, rmdir or rename fails in the state before
HostRefuses ==
    \/ ServedKnown("unlink") /\ ~remove_file(host, NamedPath).ok
    \/ ServedKnown("rmdir") /\ ~remove_dir(host, NamedPath).ok
    \/ ServedKnown("rename") /\ ~rename_at(host, NamedPath, NamedNewPath).ok

\* C23: an unlink, rmdir or rename with known parents whose host call fails
\* replies ENOENT and leaves inode_to_path, path_to_inode, next_inode and the
\* source directory as they were.
C23_RefusedLeavesTable ==
    [][HostRefuses =>
        /\ th'[1].reply = ReplyError(ENOENT)
        /\ th'[1].nreply = 1
        /\ TableUnchanged
        /\ host' = host]_vars

\* unlink of the directory `a`, whose path is interned, has been refused by the
\* host, and `a` is interned as before
C23_Witness ==
    /\ th[1].pc = "done"
    /\ th[1].req.op = "unlink"
    /\ th[1].req.ino = 1
    /\ th[1].req.name = "a"
    /\ th[1].reply = ReplyError(ENOENT)
    /\ ~remove_file(host, <<"a">>).ok
    /\ Has(path_to_inode, <<"a">>)
    /\ inode_to_path[path_to_inode[<<"a">>]] = <<"a">>

\* the host open of the served open or create, as the handler asks for it in the
\* state before
HostOpen ==
    IF th'[1].req.op = "create"
    THEN open_at(host, NamedPath, Options(th'[1].req.flags, TRUE))
    ELSE open_at(host, inode_to_path[th'[1].req.ino], Options(th'[1].req.flags, FALSE))

\* the served create has interned its path, put one new handle into the Handle
\* Table and replied that handle with the attributes of the host's stat
CreatedOne ==
    /\ th'[1].reply.kind = "created"
    /\ Has(path_to_inode', NamedPath)
    /\ inode_to_path'[path_to_inode'[NamedPath]] = NamedPath
    /\ ~Has(open_files, th'[1].reply.fh)
    /\ DOMAIN open_files' = DOMAIN open_files \cup {th'[1].reply.fh}
    /\ \A h \in DOMAIN open_files : open_files'[h] = open_files[h]
    /\ open_files'[th'[1].reply.fh] = HostOpen.file
    /\ metadata(host', NamedPath).ok
    /\ th'[1].reply.attr = metadata_to_attr(metadata(host', NamedPath), path_to_inode'[NamedPath])

\* C24: a create with a known parent whose host open succeeds interns the child
\* path, adds exactly one handle to open_files and replies that handle with the
\* attributes of the child; an open or create with a known id whose host open
\* fails replies ENOENT and leaves next_fh, open_files, both maps, next_inode
\* and the source directory as they were.
C24_CreateOrNothing ==
    [][((ServedKnown("open") \/ ServedKnown("create"))) =>
        IF HostOpen.ok
        THEN th'[1].req.op = "create" => CreatedOne
        ELSE /\ th'[1].reply = ReplyError(ENOENT)
             /\ next_fh' = next_fh
             /\ open_files' = open_files
             /\ TableUnchanged
             /\ host' = host]_vars

\* a create has made `a/b`, interned it and left the handle 1 on it; a later
\* create that asks for no write access has been refused by the host, and the
\* Handle Table holds the handle 1 alone
C24_Witness ==
    /\ th[1].pc = "done"
    /\ th[1].req.op = "create"
    /\ Has(inode_to_path, th[1].req.ino)
    /\ th[1].req.flags.acc = "O_RDONLY"
    /\ th[1].reply = ReplyError(ENOENT)
    /\ EntryAt(host, <<"a", "b">>).kind = "file"
    /\ Has(path_to_inode, <<"a", "b">>)
    /\ DOMAIN open_files = {1}
    /\ open_files[1].hino = EntryAt(host, <<"a", "b">>).hino
    /\ next_fh = 2

----------------------------------------------------------------------------
(* Claims about symbolic links and attributes *)

\* C26: a symlink with a known parent whose host call fails replies ENOSYS and
\* leaves both maps, next_inode and the source directory as they were; one whose
\* host call succeeds has the link's path bound both ways and replies an entry of
\* kind Symlink under that id, with the attributes the non-following stat gives
\* for the link.
C26_SymlinkOrNothing ==
    [][ServedKnown("symlink") =>
        IF symlink_at(host, th'[1].req.target, NamedPath).ok
        THEN /\ th'[1].reply.kind = "entry"
             /\ th'[1].reply.attr.kind = "Symlink"
             /\ symlink_metadata(host', NamedPath).kind = "symlink"
             /\ Has(path_to_inode', NamedPath)
             /\ inode_to_path'[path_to_inode'[NamedPath]] = NamedPath
             /\ th'[1].reply.attr =
                    metadata_to_attr(symlink_metadata(host', NamedPath), path_to_inode'[NamedPath])
        ELSE /\ th'[1].reply = ReplyError(ENOSYS)
             /\ TableUnchanged
             /\ host' = host]_vars

\* symlink has made the link `a/b`, whose target is the regular file `a/a`, and
\* has replied an entry of kind Symlink for it
C26_Witness ==
    /\ th[1].pc = "done"
    /\ th[1].req.op = "symlink"
    /\ th[1].reply.kind = "entry"
    /\ th[1].reply.attr.kind = "Symlink"
    /\ EntryAt(host, <<"a", "b">>).kind = "symlink"
    /\ metadata(host, <<"a", "b">>).ok
    /\ metadata(host, <<"a", "b">>).kind = "file"
    /\ Has(path_to_inode, <<"a", "b">>)
    /\ th[1].reply.attr.ino = path_to_inode[<<"a", "b">>]

\* the path the served request's id is bound to, and the entry of the source
\* directory that path leads to, links followed, before and after the step
IdPath == inode_to_path[th'[1].req.ino]

Target == Real(host, IdPath, TRUE).path

EntryBefore == EntryAt(host, Target)

EntryAfter == EntryAt(host', Target)

\* what the host answers to each step of the served setattr, asked in the state
\* before the request: the truncation of the file to the size given, the change
\* of the permission bits, the change of owner and group
TruncateGranted ==
    /\ th'[1].req.newsize # -1
    /\ th'[1].req.newsize <= MaxFileLen
    /\ open_at(host, IdPath, [read |-> FALSE, write |-> TRUE, append |-> FALSE,
                              create |-> FALSE, truncate |-> FALSE]).ok
    /\ EntryBefore.kind = "file"

ChmodGranted == th'[1].req.mode # -1 /\ set_permissions(host, IdPath, th'[1].req.mode).ok

ChownGranted ==
    /\ th'[1].req.uid # -1 \/ th'[1].req.gid # -1
    /\ chown(host, IdPath, th'[1].req.uid, th'[1].req.gid).ok

\* C25: a setattr of a known id has applied each of its three steps exactly when
\* the host grants that step in the state before the request, whatever became
\* of the other two (the file has the size given iff the truncation is granted,
\* the entry has the lower 12 bits of the mode given iff the chmod is granted,
\* the group given iff the chown is granted, and nothing else of the source
\* directory has changed); it replies once, the attributes of a stat of the state
\* after if that stat succeeds and ENOENT if it fails; the Identity Table is as
\* it was.  The truncation is judged by the permission bits before the chmod.
C25_SetattrBestEffort ==
    [][ServedKnown("setattr") =>
        /\ th'[1].nreply = 1
        /\ th'[1].reply = IF metadata(host', IdPath).ok
                          THEN ReplyAttr(metadata_to_attr(metadata(host', IdPath), th'[1].req.ino))
                          ELSE ReplyError(ENOENT)
        /\ TableUnchanged
        /\ \A q \in Paths \ {Target} : host'.tree[q] = host.tree[q]
        /\ EntryAfter = [EntryBefore EXCEPT
                            !.perm = IF ChmodGranted THEN th'[1].req.mode % 4096 ELSE @,
                            !.gid = IF ChownGranted /\ th'[1].req.gid # -1 THEN th'[1].req.gid ELSE @]
        /\ DOMAIN host'.files = DOMAIN host.files
        /\ \A i \in DOMAIN host.files :
            IF TruncateGranted /\ i = EntryBefore.hino
            THEN Len(host'.files[i]) = th'[1].req.newsize
            ELSE host'.files[i] = host.files[i]]_vars

----------------------------------------------------------------------------
(* SpecAttr: metadata_to_attr applied to one host metadata record *)

\* the host metadata records metadata_to_attr is given: every kind; the modes
\* 0o100644 and 0o106755; link counts 1, 2^32 and 2^32 + 5; the devices 0 and
\* 2^32 + 7; the block sizes 4096 and 2^48 + 512; the inode-change times 0, 5,
\* -1 and i64::MIN
Metadatas ==
    [ok : {TRUE}, kind : {"dir", "file", "symlink"}, size : {0}, mode : {33188, 36333},
     nlink : {U64(1), <<0, 0, 1, 0>>, <<5, 0, 1, 0>>}, uid : {0}, gid : {0},
     rdev : {U64(0), <<7, 0, 1, 0>>}, blksize : {U64(4096), <<512, 0, 0, 1>>},
     ctime : {U64(0), U64(5), <<Limb - 1, Limb - 1, Limb - 1, Limb - 1>>, <<0, 0, 0, Limb \div 2>>}]

InitAttr ==
    /\ inode_to_path = new.inode_to_path
    /\ path_to_inode = new.path_to_inode
    /\ next_inode = new.next_inode
    /\ open_files = new.open_files
    /\ next_fh = new.next_fh
    /\ mutex = Fresh.mutex
    /\ host = SeedHost
    /\ th = [t \in Threads |-> Idle]
    /\ served = 0
    /\ proc = Waiting
    /\ \E md \in Metadatas, inode \in 1..2 :
        xlat = [md |-> md, inode |-> inode, out |-> NoCall.out]

\* a handler calls self.metadata_to_attr(&metadata, inode)
Translate ==
    /\ xlat.out = NoCall.out
    /\ xlat' = [xlat EXCEPT !.out = metadata_to_attr(xlat.md, xlat.inode)]
    /\ UNCHANGED <<inode_to_path, path_to_inode, next_inode, open_files, next_fh, mutex, host,
                   th, served, proc>>

SpecAttr == InitAttr /\ [][Translate]_vars

\* the value of the two low limbs of a 64-bit field, halves apart: v mod 2^32
\* is Low(v)[1] + 2^16 * Low(v)[2]
Low(w) == <<w[1], w[2]>>

\* C28: for every host metadata record metadata_to_attr returns an attribute
\* record and does not panic, whether the inode-change time is negative or not;
\* perm is the mode modulo 2^12, and nlink, rdev and blksize are the host's
\* values modulo 2^32.
C28_TranslatorTotal ==
    xlat.out # NoCall.out =>
        /\ xlat.out # Panicked
        /\ xlat.out.perm = xlat.md.mode % 4096
        /\ xlat.out.nlink = Low(xlat.md.nlink)
        /\ xlat.out.rdev = Low(xlat.md.rdev)
        /\ xlat.out.blksize = Low(xlat.md.blksize)

----------------------------------------------------------------------------
(* SpecMain: main from its arguments to the end of the process *)

\* what the two arguments name on the host
ArgKinds == {"dir", "file", "missing"}

InitMain ==
    /\ inode_to_path = new.inode_to_path
    /\ path_to_inode = new.path_to_inode
    /\ next_inode = new.next_inode
    /\ open_files = new.open_files
    /\ next_fh = new.next_fh
    /\ mutex = Fresh.mutex
    /\ host = SeedHost
    /\ th = [t \in Threads |-> Idle]
    /\ served = 0
    /\ xlat = NoCall
    /\ \E source \in ArgKinds, mountpoint \in ArgKinds, mountable \in BOOLEAN :
        proc = Started(source, mountpoint, mountable)

Alive == proc.pc \notin {"exited", "killed"}

exit(code) == [proc EXCEPT !.pc = "exited", !.code = code]

MainStep(p) ==
    /\ proc' = p
    /\ UNCHANGED <<inode_to_path, path_to_inode, next_inode, open_files, next_fh, mutex, host,
                   th, served, xlat>>

\* if !source.exists() || !source.is_dir() { exit(1) }
CheckSource ==
    /\ proc.pc = "check_source"
    /\ MainStep(IF proc.source # "dir" THEN exit(1) ELSE [proc EXCEPT !.pc = "check_mountpoint"])

\* if !mountpoint.exists() || !mountpoint.is_dir() { exit(1) }
CheckMountpoint ==
    /\ proc.pc = "check_mountpoint"
    /\ MainStep(IF proc.mountpoint # "dir" THEN exit(1) ELSE [proc EXCEPT !.pc = "spawn_mount2"])

\* fuser::spawn_mount2(fs, &mountpoint, &options): Ok starts the background
\* session, Err exits with 1
Mount ==
    /\ proc.pc = "spawn_mount2"
    /\ MainStep(IF ~proc.mountable THEN exit(1)
                ELSE [proc EXCEPT !.pc = "set_handler", !.session = "open"])

\* ctrlc::set_handler(move || { r.store(false, ..) })
SetHandler ==
    /\ proc.pc = "set_handler"
    /\ MainStep([proc EXCEPT !.pc = "wait", !.handler = TRUE])

\* while running.load(..) { sleep(100 ms) }: the loop is left once the flag is down
Wait ==
    /\ proc.pc = "wait"
    /\ ~proc.running
    /\ MainStep([proc EXCEPT !.pc = "drop"])

\* drop(session): the background session is unmounted and its thread joined
DropSession ==
    /\ proc.pc = "drop"
    /\ th[1].pc = "idle"
    /\ MainStep([proc EXCEPT !.pc = "umount", !.session = "dropped"])

\* Command::new("umount").arg(&mp).output(), its result ignored; main returns
Umount ==
    /\ proc.pc = "umount"
    /\ MainStep([exit(0) EXCEPT !.umount = TRUE])

\* SIGINT reaches the process: the Ctrl+C handler, once set, lowers the flag;
\* before that the signal has its default disposition and ends the process,
\* which takes the session with it
Sigint ==
    /\ Alive
    /\ proc.sigints < MaxSignals
    /\ MainStep(IF proc.handler
                THEN [proc EXCEPT !.running = FALSE, !.sigints = @ + 1, !.interrupted = TRUE]
                ELSE [proc EXCEPT !.pc = "killed", !.sigints = @ + 1,
                                  !.interrupted = proc.session = "open",
                                  !.session = IF @ = "open" THEN "lost" ELSE @])

\* the kernel has requests served while the session is mounted
Mounted == Alive /\ proc.session = "open"

NextMain ==
    \/ CheckSource
    \/ CheckMountpoint
    \/ Mount
    \/ SetHandler
    \/ Wait
    \/ DropSession
    \/ Umount
    \/ Sigint
    \/ Mounted /\ Lookup
    \/ Mounted /\ Getattr
    \/ Mounted /\ Retire(1)

SpecMain == InitMain /\ [][NextMain]_vars

Ended == ~Alive

\* C27: once mounted the process does not leave its serving state before an
\* interrupt; a process that has ended after an interrupt received after the
\* mount has dropped the session, has run umount and has exited with code 0, in
\* that order; a process given a source or a mountpoint that is missing or not a
\* directory, or whose mount fails, ends with code 1 having served nothing.
C27_InterruptThenUnmount ==
    /\ proc.session # "open" /\ proc.session # "none" => proc.interrupted
    /\ Ended /\ proc.interrupted =>
        /\ proc.pc = "exited"
        /\ proc.code = 0
        /\ proc.session = "dropped"
        /\ proc.umount
    /\ proc.umount => proc.session = "dropped"
    /\ proc.pc = "exited" /\ (proc.source # "dir" \/ proc.mountpoint # "dir" \/ ~proc.mountable) =>
        proc.code = 1 /\ served = 0
    /\ proc.session = "none" => served = 0

----------------------------------------------------------------------------
(* Claims about requests racing on one path *)

\* every request dispatched has replied
AllReplied == \A t \in Threads : th[t].pc \in {"idle", "done"}

\* thread t has served a request that removes or moves the entry `name` of the
\* directory `parent`, or moves an entry onto it
Unbinds(t, parent, name) ==
    /\ th[t].pc = "done"
    /\ \/ th[t].req.op = "unlink" /\ th[t].req.ino = parent /\ th[t].req.name = name
       \/ th[t].req.op = "rename" /\ th[t].req.ino = parent /\ th[t].req.name = name
       \/ th[t].req.op = "rename" /\ th[t].req.newparent = parent /\ th[t].req.newname = name

\* thread t has a success reply to a lookup or a create, which carries an id
GaveId(t) ==
    /\ th[t].pc = "done"
    /\ th[t].req.op \in {"lookup", "create"}
    /\ th[t].reply.kind \in {"entry", "created"}

\* the path thread t's request names, by the table as it is now
PathNamedBy(t) == join(inode_to_path[th[t].req.ino], th[t].req.name)

\* C29: when an unlink or a rename and a lookup or a create of the same entry,
\* served at the same time, have all replied, the two maps are exact inverses, and the id a success reply
\* of the lookup or create carries resolves to the path the request named if
\* the host still has an entry there.
C29_RacingRequestsAtomic ==
    \A t, u \in Threads :
        (/\ AllReplied
         /\ th[t].concurrent \/ th[u].concurrent
         /\ GaveId(u)
         /\ Unbinds(t, th[u].req.ino, th[u].req.name)) =>
            /\ ForwardConfirmed
            /\ BackwardConfirmed
            /\ (/\ Has(inode_to_path, th[u].req.ino)
                /\ symlink_metadata(host, PathNamedBy(u)).ok) =>
                    /\ Has(inode_to_path, th[u].reply.attr.ino)
                    /\ inode_to_path[th[u].reply.attr.ino] = PathNamedBy(u)

\* thread t ends an open or a create with an error reply in this step
Refused(t) ==
    /\ th[t].pc # "done"
    /\ th'[t].pc = "done"
    /\ th'[t].req.op \in {"open", "create"}
    /\ th'[t].reply.kind = "error"

\* C30: a handle is in open_files only if it was delivered in a success reply:
\* an open or a create that ends with an error reply, such as a create whose
\* stat after the open fails, leaves the handle it had taken for its file out
\* of open_files.
C30_HandlesWereDelivered ==
    [][\A t \in Threads :
            Refused(t) => (th[t].fh = 0 \/ ~Has(open_files', th[t].fh))]_vars

----------------------------------------------------------------------------
(* Claims about ids below a renamed directory and ids interned at once *)

\* the ids bound, before the step, to existing entries below the path the served
\* request names
IdsBelow ==
    {i \in DOMAIN inode_to_path :
        /\ IsPrefix(NamedPath, inode_to_path[i])
        /\ inode_to_path[i] # NamedPath
        /\ symlink_metadata(host, inode_to_path[i]).ok}

\* the reply to a getattr(i) sent next
GetattrAfter(i) == ServedIn(SharedAfter, Req("getattr", i, "")).T.reply

\* C31: after a successful rename of a directory every id that was bound to an
\* existing entry below it is bound to the same entry's new path, the old path
\* with the directory's old path replaced by the new one, and a getattr of the id
\* replies attributes.
C31_DescendantsFollowRename ==
    [][(/\ ServedKnown("rename")
        /\ th'[1].reply = ReplyOk
        /\ symlink_metadata(host, NamedPath).kind = "dir") =>
        \A i \in IdsBelow :
            /\ Has(inode_to_path', i)
            /\ inode_to_path'[i] = Rebase(inode_to_path[i], NamedPath, NamedNewPath)
            /\ GetattrAfter(i).kind = "attr"]_vars

\* the ids the success reply of thread t carries for the path that the name n
\* makes below the directory `parent`: the id of a lookup, create, mkdir or
\* symlink reply, the ids a readdir reply lists under that name
Gives(t, parent, n) ==
    IF th[t].pc # "done" \/ th[t].req.ino # parent THEN {}
    ELSE IF /\ th[t].req.op \in {"lookup", "create", "mkdir", "symlink"}
            /\ th[t].reply.kind \in {"entry", "created"}
            /\ th[t].req.name = n
    THEN {th[t].reply.attr.ino}
    ELSE IF th[t].req.op = "readdir" /\ th[t].reply.kind = "directory"
    THEN {th[t].reply.entries[k].ino :
            k \in {j \in DOMAIN th[t].reply.entries : th[t].reply.entries[j].name = n}}
    ELSE {}

\* C32: two requests served at the same time that intern the same path reply
\* the same id; that id and no other is bound to the path, in both maps, and no
\* id below next_inode is left unbound: one id was allocated for the path.
C32_OneIdPerPath ==
    \A t, u \in Threads, parent \in DOMAIN inode_to_path, n \in Names :
        (/\ t # u
         /\ Gives(t, parent, n) # {}
         /\ Gives(u, parent, n) # {}) =>
            LET p == join(inode_to_path[parent], n) IN
            /\ Gives(t, parent, n) = Gives(u, parent, n)
            /\ Has(path_to_inode, p)
            /\ Gives(t, parent, n) = {path_to_inode[p]}
            /\ {i \in DOMAIN inode_to_path : inode_to_path[i] = p} = {path_to_inode[p]}
            /\ \A i \in 1..(next_inode - 1) : Has(inode_to_path, i)

\* two lookups of the name `a`, unseen before, served at the same time, have
\* both replied the id 2, the only id allocated
C32_Witness ==
    /\ \A t \in Threads :
        /\ th[t].pc = "done"
        /\ th[t].req.op = "lookup"
        /\ th[t].req.ino = 1
        /\ th[t].req.name = "a"
        /\ th[t].reply.kind = "entry"
        /\ th[t].reply.attr.ino = 2
    /\ \E t \in Threads : th[t].concurrent
    /\ next_inode = 3
    /\ path_to_inode[<<"a">>] = 2

\* thread t ends a create, a mkdir or a symlink with an error reply in this
\* step, and no other worker serves a request that interns a path
FailsAlone(t) ==
    /\ th[t].pc # "done"
    /\ th'[t].pc = "done"
    /\ th'[t].req.op \in {"create", "mkdir", "symlink"}
    /\ th'[t].reply.kind = "error"
    /\ \A u \in Threads \ {t} :
            th[u].req.op \notin {"lookup", "readdir", "create", "mkdir", "symlink"}

\* C33: a create, mkdir or symlink that replies an error has consumed no id and
\* interned no path: the id its get_or_create_inode returned, if it called it
\* at all, was allocated before the request arrived.
C33_FailedInternsNothing ==
    [][\A t \in Threads : FailsAlone(t) => th[t].inode < th[t].first_free]_vars

----------------------------------------------------------------------------
(* Claims about handles, listings and error classes *)

\* the reply to a read of the whole file through handle h, served in state S
ReadVia(S, h) ==
    ServedIn(S, [ReqFh("read", h) EXCEPT !.offset = 0, !.size = MaxFileLen]).T.reply

\* a write of one byte at offset 0 through handle h, served in state S: its
\* reply and what a read through h gets afterwards
WriteVia(S, h) ==
    LET w == ServedIn(S, [ReqFh("write", h) EXCEPT !.offset = 0, !.data = <<3>>])
    IN  <<w.T.reply, ReadVia(w.S, h)>>

\* C34: an unlink, rmdir or rename leaves open_files and next_fh as they are, and
\* through every handle a read replies after it what it replied before and a
\* write does after it what it did before, whether the handle's path is the one
\* removed or renamed or not.
C34_HandlesOutliveNames ==
    [][(Served /\ th'[1].req.op \in {"unlink", "rmdir", "rename"}) =>
        /\ open_files' = open_files
        /\ next_fh' = next_fh
        /\ \A h \in DOMAIN open_files :
            /\ ReadVia(SharedAfter, h) = ReadVia(Shared, h)
            /\ WriteVia(SharedAfter, h) = WriteVia(Shared, h)]_vars

\* the file a/a has been unlinked while handle 1 was open on it: no name leads
\* to it any more, and a read through the handle still gets its bytes
C34_Witness ==
    /\ th[1].pc = "done"
    /\ th[1].req.op = "unlink"
    /\ th[1].reply = ReplyOk
    /\ Has(open_files, 1)
    /\ open_files[1].hino = 1
    /\ \A p \in Paths : EntryAt(host, p).kind # "file"
    /\ ReadVia(Shared, 1) = ReplyData(SeedContent)

\* the paths readdir makes of the names the host enumerates in the directory
\* `dir`: each name as to_string_lossy renders it, joined to dir
ChildPaths(h, dir, order) ==
    LET names == read_dir(h, dir, order).names
    IN  {join(dir, to_string_lossy(names[k])) : k \in DOMAIN names}

\* path p is bound in S, both ways
Bound(S, p) ==
    /\ Has(S.path_to_inode, p)
    /\ Has(S.inode_to_path, S.path_to_inode[p])
    /\ S.inode_to_path[S.path_to_inode[p]] = p

\* the readdir r, served in state S with reply `reply`, leaves the Identity
\* Table of S2: if the directory can be listed the reply is a listing, every
\* child's path is bound, one id was allocated for each that was not bound
\* before, and nothing else of path_to_inode has changed; if not, the reply is
\* ENOENT and the table is the one of S
ReaddirInterns(S, r, S2, reply) ==
    IF Has(S.inode_to_path, r.ino) /\ read_dir(S.host, S.inode_to_path[r.ino], r.order).ok
    THEN /\ reply.kind = "directory"
         /\ \A p \in ChildPaths(S.host, S.inode_to_path[r.ino], r.order) : Bound(S2, p)
         /\ DOMAIN S2.path_to_inode =
                DOMAIN S.path_to_inode \cup ChildPaths(S.host, S.inode_to_path[r.ino], r.order)
         /\ \A p \in DOMAIN S.path_to_inode : S2.path_to_inode[p] = S.path_to_inode[p]
         /\ S2.next_inode = S.next_inode + Cardinality(
                ChildPaths(S.host, S.inode_to_path[r.ino], r.order) \ DOMAIN S.path_to_inode)
    ELSE /\ reply = ReplyError(ENOENT)
         /\ S2.inode_to_path = S.inode_to_path
         /\ S2.path_to_inode = S.path_to_inode
         /\ S2.next_inode = S.next_inode

\* every readdir of a known or unknown id, from every offset up to the end of
\* the largest listing, with room for one to four entries, in both orders
AnyReaddir ==
    {[Req("readdir", x[1], "") EXCEPT !.offset = x[2], !.cap = x[3], !.order = x[4]] :
        x \in NodeIds \X (0..4) \X (1..4) \X Orders}

C36_ExistsOnlyIfExists ==
    [][(ServedKnown("mkdir") /\ th'[1].reply = ReplyError(EEXIST)) =>
            symlink_metadata(host, NamedPath).ok]_vars

----------------------------------------------------------------------------
(* Claims about appending *)

\* the handles open for writing with the append flag
AppendHandles == {h \in DOMAIN open_files : open_files[h].append /\ open_files[h].write}

\* the write r through an append handle of S, served with reply `reply`, leaves
\* the source directory h2: a reply `written` counts bytes of the data that now
\* follow the previous content of the file, all of the data if the host has room
\* for it; any other reply leaves the file as it was
Appended(S, r, h2, reply) ==
    LET f == S.open_files[r.fh]
        before == S.host.files[f.hino]
    IN  /\ Len(before) + Len(r.data) <= MaxFileLen => reply = ReplyWritten(Len(r.data))
        /\ IF reply.kind = "written"
           THEN /\ reply.size \in 1..Len(r.data)
                /\ h2.files[f.hino] = before \o SubSeq(r.data, 1, reply.size)
           ELSE h2.files[f.hino] = before

\* every write through handle h: each offset up to the host's limit, one byte
\* and two
AnyWrite(h) ==
    {[ReqFh("write", h) EXCEPT !.offset = x[1], !.data = x[2]] :
        x \in (0..MaxFileLen) \X {<<3>>, <<3, 4>>}}

\* C37: a write through a handle opened for writing with the append flag puts
\* its data after the content the file has, whatever offset it carries, and
\* overwrites nothing: the file is then the previous content followed by the
\* bytes the reply counts as written.  This holds for the writes served and, in
\* every state reached, for every write were it served next.
C37_AppendAtEnd ==
    /\ [][(Transferred /\ th'[1].req.op = "write" /\ th'[1].req.fh \in AppendHandles) =>
            Appended(Shared, th'[1].req, host', th'[1].reply)]_vars
    /\ [](th[1].pc = "idle" =>
            \A h \in AppendHandles : \A r \in AnyWrite(h) :
                Appended(Shared, r, ServedIn(Shared, r).S.host, ServedIn(Shared, r).T.reply))

\* a write of one byte carrying offset 0 has been served through an append
\* handle on a/a: the reply counts one byte and the file is its two bytes
\* followed by the new one
C37_Witness ==
    /\ th[1].pc = "done"
    /\ th[1].req.op = "write"
    /\ th[1].req.offset = 0
    /\ th[1].req.data = <<3>>
    /\ th[1].req.fh \in AppendHandles
    /\ th[1].reply = ReplyWritten(1)
    /\ host.files[open_files[th[1].req.fh].hino] = SeedContent \o <<3>>

====
